---- MODULE Spec2Model ----
(***************************************************************************)
(* State-machine model of the index service of Vivekgoku20/IndexDev:      *)
(*   app/cache/cache.py                 RedisCache                         *)
(*   app/services/index_calculator.py   IndexCalculator                    *)
(*   app/services/data_acquisition.py   DataAcquisition (day transaction)  *)
(*   app/routers/index_router.py        the HTTP adapters                  *)
(*                                                                         *)
(* Dates are day numbers (date d+1 is the calendar day after d); symbols   *)
(* are numbers whose order is the lexicographic order of the ticker        *)
(* strings.  Python floats are modelled as exact rationals <<n, d>>.       *)
(***************************************************************************)
EXTENDS Integers, Sequences, FiniteSets, TLC

VARIABLES
    first_weekday,      \* date.weekday() of date 0 (Monday = 0 .. Sunday = 6)
    daily_data,         \* table daily_data: <<symbol, date>> -> row | NoRow
    index_composition,  \* table index_composition: <<date, symbol>> -> row | NoRow
    index_performance,  \* table index_performance: date -> daily_return | NoRow
    redis,              \* the Redis server: key -> stored text (present keys only)
    connected,          \* RedisCache._connected of the router's cache instance
    call,               \* caller -> the locals of its request in flight
    ret,                \* caller -> what its last finished request returned
    windows,            \* the date ranges the clients ask for
    acquisitions,       \* acquisition day transactions committed so far
    backend,            \* what the last RedisCache call did to the Redis client
    faults,             \* failures the database may still answer a statement with
    run                 \* the locals of the run_acquisition in progress

vars == <<first_weekday, daily_data, index_composition, index_performance, redis,
          connected, call, ret, windows, acquisitions, backend, faults, run>>

----------------------------------------------------------------------------
(* Bounds of the model *)

NumSymbols == 2
MaxDate == 2
MaxAcquisitions == 1
MaxFaults == 1                  \* statements the database fails in one behaviour
NumListed == 4                  \* symbols of the listing, for the composition

Symbols == 1..NumSymbols
Listed == 1..NumListed
Dates == 0..MaxDate
FirstWeekdays == {3, 5}         \* date 0 is a Thursday or a Saturday
\* The candidates the provider quotes on a day: symbol 1 always, the others
\* on some runs and not on others
Quotable == {S \in SUBSET Symbols : 1 \in S}
None == "None"                  \* no exception raised

----------------------------------------------------------------------------
(* Exact arithmetic standing for Python / SQLite floats *)

Abs(x) == IF x < 0 THEN -x ELSE x

RECURSIVE Gcd(_, _)
Gcd(a, b) == IF b = 0 THEN a ELSE Gcd(b, a % b)

Rat(n, d) ==
    LET g == Gcd(Abs(n), Abs(d))
        s == IF d < 0 THEN -1 ELSE 1
    IN  <<(s * n) \div g, (s * d) \div g>>

RZero == <<0, 1>>
ROne == <<1, 1>>
RAdd(a, b) == Rat(a[1] * b[2] + b[1] * a[2], a[2] * b[2])
RSub(a, b) == Rat(a[1] * b[2] - b[1] * a[2], a[2] * b[2])
RMul(a, b) == Rat(a[1] * b[1], a[2] * b[2])
RDiv(a, b) == Rat(a[1] * b[2], a[2] * b[1])
RInt(n) == <<n, 1>>

RECURSIVE RSum(_, _)
RSum(f, S) ==
    IF S = {} THEN RZero
    ELSE LET x == CHOOSE y \in S : TRUE IN RAdd(f[x], RSum(f, S \ {x}))

----------------------------------------------------------------------------
(* The calendar and the market-data provider *)

\* datetime.date.weekday(): Monday is 0 and Sunday is 6
Weekday(d) == (first_weekday + d) % 7

\* hist['Close'].iloc[0] of yfinance for a symbol and a date
Close(s, d) ==
    IF s = 1 THEN (IF d % 2 = 0 THEN 100 ELSE 110)
    ELSE IF s = 2 THEN (IF d <= 0 THEN 50 ELSE 55)
    ELSE 10 * s + d

\* hist['Volume'].iloc[0] of yfinance for a symbol and a date
Volume(s, d) == s + 1

\* The row run_acquisition stores in daily_data for a quoted symbol
DailyRow(s, d) ==
    [price |-> Close(s, d), market_cap |-> Close(s, d) * Volume(s, d),
     volume |-> Volume(s, d)]

----------------------------------------------------------------------------
(* Values: Python objects and the texts Redis stores *)

PyNone == [type |-> "None"]
Float(r) == [type |-> "float", num |-> r]
Dict(f) == [type |-> "dict", items |-> f]
List(q) == [type |-> "list", elems |-> q]

\* str(x) of a float: the shortest repr, which parses back to the same float
PyStr(r) == [text |-> "repr", num |-> r]
\* json.dumps(x) of a dict or a list
json_dumps(v) == [text |-> "json", obj |-> v]
\* json.loads(text): the repr of a finite float is a JSON number
json_loads(t) == IF t.text = "repr" THEN Float(t.num) ELSE t.obj

\* A str object, and a stored text that is not JSON
Str(chars) == [type |-> "str", chars |-> chars]
RawText(chars) == [text |-> "raw", chars |-> chars]
\* RedisCache.get lines 38-44: json.loads(value), or the text itself when it
\* is not JSON
Decoded(t) == IF t.text = "raw" THEN Str(t.chars) ELSE json_loads(t)

\* float(x): the value, or the exception Python raises
PyFloat(v) ==
    IF v.type = "float" THEN [num |-> v.num, raised |-> None]
    ELSE IF v.type = "str" THEN [raised |-> "ValueError"]
    ELSE [raised |-> "TypeError"]

Range(q) == {q[i] : i \in 1..Len(q)}
Min(a, b) == IF a <= b THEN a ELSE b

----------------------------------------------------------------------------
(* app/cache/cache.py: RedisCache.  ping and reply are the Redis server's    *)
(* answers to the round trips the call makes: "ok" or "RedisError".         *)

Replies == {"ok", "RedisError"}
Unsent == "unsent"
\* No PING is sent by an instance whose _connected is already True
PingReplies(conn) == IF conn THEN {"ok"} ELSE Replies

\* A different check: the instance counts itself connected whatever the PING
\* answered
ensure_connected_unchecked(conn, ping) ==
    [ok |-> TRUE, connected |-> TRUE, pinged |-> ~conn, raised |-> None]

\* A different check: the PING is sent on every call
ensure_connected_each_call(conn, ping) ==
    IF ping = "ok"
    THEN [ok |-> TRUE, connected |-> TRUE, pinged |-> TRUE, raised |-> None]
    ELSE [ok |-> FALSE, connected |-> FALSE, pinged |-> TRUE, raised |-> None]

\* lines 12-22
ensure_connected(conn, ping) ==
    IF conn
    THEN [ok |-> TRUE, connected |-> TRUE, pinged |-> FALSE, raised |-> None]
    ELSE IF ping = "ok"
    THEN [ok |-> TRUE, connected |-> TRUE, pinged |-> TRUE, raised |-> None]
    ELSE [ok |-> FALSE, connected |-> FALSE, pinged |-> TRUE, raised |-> None]

\* RedisCache.get(key) -> the decoded value or None
cache_get(conn, store, key, ping, reply) ==
    LET c == ensure_connected(conn, ping) IN
    IF c.raised # None
    THEN [value |-> PyNone, connected |-> c.connected, store |-> store,
          pinged |-> c.pinged, issued |-> FALSE,
          raised |-> IF c.raised = "RedisError" THEN None ELSE c.raised]
    ELSE IF ~c.ok
    THEN [value |-> PyNone, connected |-> c.connected, store |-> store,
          pinged |-> c.pinged, issued |-> FALSE, raised |-> None]
    ELSE IF reply # "ok"
    THEN [value |-> PyNone, connected |-> c.connected, store |-> store,
          pinged |-> c.pinged, issued |-> TRUE, raised |-> None]
    ELSE [value |-> IF key \in DOMAIN store THEN Decoded(store[key]) ELSE PyNone,
          connected |-> c.connected, store |-> store,
          pinged |-> c.pinged, issued |-> TRUE, raised |-> None]

\* A different set: a successful write leaves the new key alone in the store
cache_set_flushing(conn, store, key, text, ping, reply) ==
    LET c == ensure_connected(conn, ping) IN
    IF ~c.ok \/ reply # "ok"
    THEN [value |-> FALSE, connected |-> c.connected, store |-> store,
          pinged |-> c.pinged, issued |-> c.ok, raised |-> None]
    ELSE [value |-> TRUE, connected |-> c.connected,
          store |-> [k \in {key} |-> text],
          pinged |-> c.pinged, issued |-> TRUE, raised |-> None]

\* RedisCache.set(key, value, expire) -> True or False; value is already a str
cache_set(conn, store, key, text, ping, reply) ==
    LET c == ensure_connected(conn, ping) IN
    IF c.raised # None
    THEN [value |-> FALSE, connected |-> c.connected, store |-> store,
          pinged |-> c.pinged, issued |-> FALSE,
          raised |-> IF c.raised = "RedisError" THEN None ELSE c.raised]
    ELSE IF ~c.ok
    THEN [value |-> FALSE, connected |-> c.connected, store |-> store,
          pinged |-> c.pinged, issued |-> FALSE, raised |-> None]
    ELSE IF reply # "ok"
    THEN [value |-> FALSE, connected |-> c.connected, store |-> store,
          pinged |-> c.pinged, issued |-> TRUE, raised |-> None]
    ELSE [value |-> TRUE, connected |-> c.connected,
          store |-> [k \in DOMAIN store \cup {key} |->
                        IF k = key THEN text ELSE store[k]],
          pinged |-> c.pinged, issued |-> TRUE, raised |-> None]

\* RedisCache.delete(key) -> True or False
cache_delete(conn, store, key, ping, reply) ==
    LET c == ensure_connected(conn, ping) IN
    IF c.raised # None
    THEN [value |-> FALSE, connected |-> c.connected, store |-> store,
          pinged |-> c.pinged, issued |-> FALSE,
          raised |-> IF c.raised = "RedisError" THEN None ELSE c.raised]
    ELSE IF ~c.ok
    THEN [value |-> FALSE, connected |-> c.connected, store |-> store,
          pinged |-> c.pinged, issued |-> FALSE, raised |-> None]
    ELSE IF reply # "ok"
    THEN [value |-> FALSE, connected |-> c.connected, store |-> store,
          pinged |-> c.pinged, issued |-> TRUE, raised |-> None]
    ELSE [value |-> TRUE, connected |-> c.connected,
          store |-> [k \in DOMAIN store \ {key} |-> store[k]],
          pinged |-> c.pinged, issued |-> TRUE, raised |-> None]

\* build_single_date_key / build_key and the f-string keys of IndexCalculator
build_single_date_key(prefix, d) == <<prefix, d>>
build_key(prefix, s, e) == <<prefix, s, e>>

----------------------------------------------------------------------------
(* app/services/index_calculator.py: helpers *)

\* read_from_cache(key, as_json): <<success, value>> from what RedisCache.get
\* returned.  RedisCache.get has already decoded the text, so the value is a
\* float, a dict or a list here and is handed on as it is.
read_from_cache(value, as_json) ==
    IF value = PyNone THEN <<FALSE, PyNone>> ELSE <<TRUE, value>>

\* write_to_cache(key, value, expire, as_json): the text handed to RedisCache.set
\* (a value that is a str already, such as str(cumulative), is passed as it is)
write_to_cache_text(value, as_json) ==
    IF "text" \in DOMAIN value THEN value
    ELSE IF as_json THEN json_dumps(value)
    ELSE PyStr(value.num)

----------------------------------------------------------------------------
(* The SQL of build_index (index_calculator.py 101-119) *)

CohortLimit == 100

HasRow(dd, s, d) == <<s, d>> \in DOMAIN dd

\* execute_query (lines 59-67): session.execute either answers or raises, and a
\* raise is swallowed: the caller is handed [] in place of a result
StatementFails(budget) == IF budget > 0 THEN {FALSE, TRUE} ELSE {FALSE}

\* FixedTop100: SELECT symbol FROM daily_data WHERE date = :previous_date
\* ORDER BY market_cap DESC LIMIT 100.  Rows of equal market_cap may come in
\* either order, so the result is one of a set of cohorts.
FixedTop100(dd, previous_date) ==
    LET rows == {s \in Symbols : HasRow(dd, s, previous_date)}
        n == Min(CohortLimit, Cardinality(rows))
    IN  {F \in SUBSET rows :
            /\ Cardinality(F) = n
            /\ \A s \in F : \A t \in rows \ F :
                  dd[<<s, previous_date>>].market_cap >= dd[<<t, previous_date>>].market_cap}

\* DailyReturns restricted to date = :current_date: the cohort symbols that have
\* a row on the current date (each has its previous-date row, being in the cohort)
Comparable(dd, F, current_date) == {s \in F : HasRow(dd, s, current_date)}

\* (price / LAG(price)) - 1 of one symbol (NULL when the previous price is 0)
SymbolReturn(dd, s, previous_date, current_date) ==
    RSub(RDiv(RInt(dd[<<s, current_date>>].price),
              RInt(dd[<<s, previous_date>>].price)), ROne)

NoRow == [found |-> FALSE]

\* A different aggregate: every cohort symbol counted, one without a row on the
\* current date as a return of 0
ZeroFilledReturn(dd, F, previous_date, current_date) ==
    LET C == Comparable(dd, F, current_date)
        r == [s \in F |-> IF s \in C
                          THEN SymbolReturn(dd, s, previous_date, current_date)
                          ELSE RZero]
    IN  IF C = {} THEN NoRow
        ELSE [found |-> TRUE, null |-> FALSE,
              equal_weighted_index_return |-> RDiv(RSum(r, F), RInt(Cardinality(F)))]

\* AVG(daily_return) GROUP BY date: the row the query returns for the cohort F:
\* none when no cohort symbol has a row on the current date, and a row holding
\* NULL when every per-symbol return is NULL (AVG skips the NULLs)
EqualWeightedReturn(dd, F, previous_date, current_date) ==
    LET C == Comparable(dd, F, current_date)
        N == {s \in C : dd[<<s, previous_date>>].price # 0}
        r == [s \in N |-> SymbolReturn(dd, s, previous_date, current_date)]
    IN  IF C = {} THEN NoRow
        ELSE IF N = {} THEN [found |-> TRUE, null |-> TRUE]
        ELSE [found |-> TRUE, null |-> FALSE,
              equal_weighted_index_return |-> RDiv(RSum(r, N), RInt(Cardinality(N)))]

\* The rows the statement can return for the two dates
DailyReturnQuery(dd, previous_date, current_date) ==
    {EqualWeightedReturn(dd, F, previous_date, current_date) :
        F \in FixedTop100(dd, previous_date)}

----------------------------------------------------------------------------
(* app/services/index_calculator.py: build_index, one action per stretch of *)
(* code between two awaits that other requests can observe                  *)

Idle == [op |-> "idle"]
NoReturn == [op |-> "none"]
NoOperation == [op |-> "none"]
NoRun == [op |-> "none"]

\* Bookkeeping of the model: a request in flight, or a recorded return, has
\* seen the persistent store change since the request began
Taint(L) == IF L = Idle THEN L ELSE [L EXCEPT !.tainted = TRUE]
Unclean(r) == IF r = NoReturn THEN r ELSE [r EXCEPT !.clean = FALSE]

\* dict(zip(index_dates, index_returns)): a later pair replaces an earlier one
DictZip(dates, returns) ==
    [d \in Range(dates) |->
        returns[CHOOSE i \in 1..Len(dates) :
                    dates[i] = d /\ \A j \in (i + 1)..Len(dates) : dates[j] # d]]

\* INSERT OR REPLACE INTO index_performance for the zipped records, in order
UpsertPerformance(rows, dates, returns) ==
    [d \in DOMAIN rows \cup Range(dates) |->
        IF d \in Range(dates) THEN DictZip(dates, returns)[d] ELSE rows[d]]

\* A different loop body: the day joins the lists, the running product is left
AccumulateUncompounded(L, index_return) ==
    [L EXCEPT !.index_dates = Append(@, L.current_date),
              !.index_returns = Append(@, index_return)]

\* lines 91-93 and 128-130: the day joins the lists and the running product;
\* lines 140-141: the cursor moves on
Accumulate(L, index_return) ==
    [L EXCEPT !.index_dates = Append(@, L.current_date),
              !.index_returns = Append(@, index_return),
              !.cumulative_index_return = RMul(@, RAdd(ROne, index_return))]

Advance(L) ==
    [L EXCEPT !.previous_date = L.current_date,
              !.current_date = L.current_date + 1,
              !.pc = "while"]

\* A different handler: the failed query ends the call
AbortedByFailedQuery(L) == Idle

\* lines 137-141: the exception of the day's query is printed and the loop
\* goes on to the next day
AfterFailedQuery(L) == Advance(L)

\* A different initialisation: the first day of the window is compared with
\* the day two days before it
DayBeforeStartSkipping(start_date) == start_date - 2

\* line 73: previous_date = start_date - timedelta(days=1)
DayBeforeStart(start_date) == start_date - 1

\* lines 69-78: the call, ensure_cache_ready and the locals
BuildIndexCall(c, s, e) ==
    /\ call[c] = Idle
    /\ <<s, e>> \in windows
    /\ \E ping \in PingReplies(connected) :
          connected' = ensure_connected(connected, ping).connected
    /\ call' = [call EXCEPT ![c] =
          [op |-> "build_index", pc |-> "while", start_date |-> s, end_date |-> e,
           previous_date |-> DayBeforeStart(s), current_date |-> s,
           index_dates |-> <<>>, index_returns |-> <<>>,
           cumulative_index_return |-> ROne, tainted |-> FALSE]]
    /\ UNCHANGED <<first_weekday, daily_data, index_composition, index_performance,
                   redis, ret, windows, acquisitions, backend, faults, run>>

\* line 80: while current_date <= end_date
BuildIndexWhile(c) ==
    /\ call[c].op = "build_index" /\ call[c].pc = "while"
    /\ call' = [call EXCEPT ![c].pc =
          IF call[c].current_date <= call[c].end_date THEN "body" ELSE "finish"]
    /\ UNCHANGED <<first_weekday, daily_data, index_composition, index_performance,
                   redis, connected, ret, windows, acquisitions, backend, faults, run>>

\* lines 81-82: the weekend test, whose continue goes back to the loop test
WeekendSkip(d) == Weekday(d) > 5

\* lines 81-98 (and 140-141 after a hit): the weekend test and the cache read
BuildIndexDay(c) ==
    LET L == call[c] IN
    /\ L.op = "build_index" /\ L.pc = "body"
    /\ IF WeekendSkip(L.current_date)
       THEN /\ call' = [call EXCEPT ![c].pc = "while"]
            /\ UNCHANGED <<connected, ret>>
       ELSE \E ping \in PingReplies(connected), reply \in Replies :
            LET g == cache_get(connected, redis,
                               build_single_date_key("daily_return", L.current_date),
                               ping, reply)
                rc == read_from_cache(g.value, FALSE)
                f == PyFloat(rc[2])
            IN  /\ connected' = g.connected
                /\ IF rc[1] /\ rc[2] # PyNone
                   THEN IF f.raised = None
                        THEN /\ call' = [call EXCEPT ![c] = Advance(Accumulate(L, f.num))]
                             /\ UNCHANGED ret
                        ELSE IF f.raised = "ValueError"
                        THEN /\ call' = [call EXCEPT ![c].pc = "compute"]
                             /\ UNCHANGED ret
                        ELSE /\ call' = [call EXCEPT ![c] = Idle]
                             /\ ret' = [ret EXCEPT ![c] =
                                   [op |-> "build_index", start_date |-> L.start_date,
                                    end_date |-> L.end_date, raised |-> f.raised,
                                    clean |-> ~L.tainted]]
                   ELSE /\ call' = [call EXCEPT ![c].pc = "compute"]
                        /\ UNCHANGED ret
    /\ UNCHANGED <<first_weekday, daily_data, index_composition, index_performance,
                   redis, windows, acquisitions, backend, faults, run>>

\* lines 99-141: the query, the write of the day's cache entry, the advance
BuildIndexCompute(c) ==
    LET L == call[c] IN
    /\ L.op = "build_index" /\ L.pc = "compute"
    /\ \E failed \in StatementFails(faults),
          row \in DailyReturnQuery(daily_data, L.previous_date, L.current_date) :
          /\ faults' = IF failed THEN faults - 1 ELSE faults
          /\ IF failed
             \* [].fetchone() raises AttributeError, caught at line 137
             THEN /\ call' = [call EXCEPT ![c] = AfterFailedQuery(L)]
                  /\ UNCHANGED <<redis, connected>>
             ELSE IF row.found /\ ~row.null
             THEN \E ping \in PingReplies(connected), reply \in Replies :
                  LET index_return == row.equal_weighted_index_return
                      w == cache_set(connected, redis,
                                     build_single_date_key("daily_return", L.current_date),
                                     write_to_cache_text(Float(index_return), FALSE),
                                     ping, reply)
                  IN  /\ redis' = w.store
                      /\ connected' = w.connected
                      /\ call' = [call EXCEPT ![c] =
                                     Advance(Accumulate(L, index_return))]
             ELSE /\ call' = [call EXCEPT ![c] = Advance(L)]
                  /\ UNCHANGED <<redis, connected>>
    /\ UNCHANGED <<first_weekday, daily_data, index_composition, index_performance,
                   ret, windows, acquisitions, backend, run>>

\* lines 143-164: the result, the cumulative cache entry, the upsert, the commit
BuildIndexFinish(c) ==
    LET L == call[c]
        daily_returns_dict == DictZip(L.index_dates, L.index_returns)
        cumulative == RSub(L.cumulative_index_return, ROne)
    IN
    /\ L.op = "build_index" /\ L.pc = "finish"
    /\ \E ping \in PingReplies(connected), reply \in Replies :
          LET w == cache_set(connected, redis,
                             build_key("cumulative_return", L.start_date, L.end_date),
                             write_to_cache_text(PyStr(cumulative), FALSE), ping, reply)
          IN  /\ redis' = w.store
              /\ connected' = w.connected
    /\ \E failed \in StatementFails(faults) :
          /\ faults' = IF failed THEN faults - 1 ELSE faults
          /\ index_performance' =
                IF failed THEN index_performance
                ELSE UpsertPerformance(index_performance, L.index_dates, L.index_returns)
    /\ call' = [k \in DOMAIN call |->
          IF k = c THEN Idle
          ELSE IF index_performance' # index_performance /\ call[k].op = "get_performance"
          THEN Taint(call[k]) ELSE call[k]]
    /\ ret' = [k \in DOMAIN ret |->
          IF k = c
          THEN [op |-> "build_index", start_date |-> L.start_date, end_date |-> L.end_date,
                raised |-> None,
                value |-> Dict([daily_index_returns |-> daily_returns_dict,
                                cumulative_index_returns |-> cumulative]),
                clean |-> ~L.tainted]
          ELSE IF index_performance' # index_performance /\ ret[k].op = "get_performance"
          THEN Unclean(ret[k]) ELSE ret[k]]
    /\ UNCHANGED <<first_weekday, daily_data, index_composition, windows, acquisitions,
                   backend, run>>

----------------------------------------------------------------------------
(* app/services/index_calculator.py: get_performance, and its router        *)

\* Dates in ascending order (sorted() of ISO date strings)
RECURSIVE SortedSeq(_)
SortedSeq(S) ==
    IF S = {} THEN <<>>
    ELSE LET m == CHOOSE x \in S : \A y \in S : x <= y
         IN  <<m>> \o SortedSeq(S \ {m})

\* lines 226-231: the compounded return over sorted(daily_returns.keys())
RECURSIVE Compound(_, _)
Compound(daily_returns, keys) ==
    IF keys = <<>> THEN ROne
    ELSE RMul(RAdd(ROne, daily_returns[Head(keys)]), Compound(daily_returns, Tail(keys)))

CumulativeReturn(daily_returns) ==
    RSub(Compound(daily_returns, SortedSeq(DOMAIN daily_returns)), ROne)

\* index_router.py 36-45: `if not performances` raises the 404.  A dict is
\* falsy only when it has no key at all.
Falsy(v) ==
    \/ v = PyNone
    \/ v.type = "dict" /\ DOMAIN v.items = {}
    \/ v.type = "list" /\ v.elems = <<>>

get_index_performance_range(performances) ==
    IF Falsy(performances) THEN [status |-> 404] ELSE [status |-> 200, body |-> performances]

\* A different test: the fast path is taken whatever the read gave
RangeHitAlways(rc) == TRUE

\* line 173: `if success:` after the read of the whole-range entry
RangeHit(rc) == rc[1]

\* lines 166-174: ensure_cache_ready, the whole-range entry, the fast path
GetPerformanceCall(c, s, e) ==
    /\ call[c] = Idle
    /\ <<s, e>> \in windows
    /\ \E ping0 \in PingReplies(connected), reply \in Replies :
        \E ping \in PingReplies(ensure_connected(connected, ping0).connected) :
          LET conn0 == ensure_connected(connected, ping0).connected
              g == cache_get(conn0, redis, <<"index_perf:range", s, e>>, ping, reply)
              rc == read_from_cache(g.value, TRUE)
          IN  /\ connected' = g.connected
              /\ IF RangeHit(rc)
                 THEN /\ call' = call
                      /\ ret' = [ret EXCEPT ![c] =
                            [op |-> "get_performance", start_date |-> s, end_date |-> e,
                             raised |-> None, value |-> rc[2], fast |-> TRUE,
                             response |-> get_index_performance_range(rc[2]),
                             clean |-> TRUE]]
                 ELSE /\ call' = [call EXCEPT ![c] =
                            [op |-> "get_performance", pc |-> "days",
                             start_date |-> s, end_date |-> e, current_date |-> s,
                             daily_returns |-> <<>>, missing_dates |-> <<>>,
                             tainted |-> FALSE]]
                      /\ ret' = ret
    /\ UNCHANGED <<first_weekday, daily_data, index_composition, index_performance,
                   redis, windows, acquisitions, backend, faults, run>>

\* lines 181-194: one turn of the per-day loop
GetPerformanceDay(c) ==
    LET L == call[c] IN
    /\ L.op = "get_performance" /\ L.pc = "days"
    /\ IF L.current_date <= L.end_date
       THEN \E ping \in PingReplies(connected), reply \in Replies :
            LET g == cache_get(connected, redis, <<"index_perf:daily", L.current_date>>,
                               ping, reply)
                rc == read_from_cache(g.value, FALSE)
                f == PyFloat(rc[2])
            IN  /\ connected' = g.connected
                /\ IF rc[1] /\ f.raised = None
                   THEN call' = [call EXCEPT ![c] =
                            [L EXCEPT !.daily_returns =
                                          [d \in DOMAIN @ \cup {L.current_date} |->
                                              IF d = L.current_date THEN f.num ELSE @[d]],
                                      !.current_date = L.current_date + 1]]
                   ELSE IF ~rc[1] \/ f.raised = "ValueError"
                   THEN call' = [call EXCEPT ![c] =
                            [L EXCEPT !.missing_dates = Append(@, L.current_date),
                                      !.current_date = L.current_date + 1]]
                   ELSE call' = [call EXCEPT ![c] = Idle]
                /\ ret' = IF rc[1] /\ f.raised \notin {None, "ValueError"}
                          THEN [ret EXCEPT ![c] =
                                  [op |-> "get_performance", start_date |-> L.start_date,
                                   end_date |-> L.end_date, raised |-> f.raised,
                                   clean |-> ~L.tainted]]
                          ELSE ret
       ELSE /\ call' = [call EXCEPT ![c].pc = "query"]
            /\ UNCHANGED <<connected, ret>>
    /\ UNCHANGED <<first_weekday, daily_data, index_composition, index_performance,
                   redis, windows, acquisitions, backend, faults, run>>

\* A different query: only the earliest of the missing dates is asked for
PerformanceQueryFirstMissing(rows, missing_dates) ==
    SortedSeq(DOMAIN rows \cap (IF missing_dates = <<>> THEN {} ELSE {Head(missing_dates)}))

\* SELECT date, daily_return FROM index_performance WHERE date IN (...) ORDER BY date
PerformanceQuery(rows, missing_dates) ==
    SortedSeq(DOMAIN rows \cap Range(missing_dates))

\* lines 215-222: each fetched day goes to its own cache key; outcome[i] is the
\* pair of replies (to the ping, to the SET) of the i-th write
RECURSIVE RecacheDays(_, _, _, _, _)
RecacheDays(conn, store, rows, fetched, outcome) ==
    IF fetched = <<>> THEN [connected |-> conn, store |-> store]
    ELSE LET d == Head(fetched)
             w == cache_set(conn, store, <<"index_perf:daily", d>>,
                            write_to_cache_text(Float(rows[d]), FALSE),
                            outcome[1][1], outcome[1][2])
         IN  RecacheDays(w.connected, w.store, rows, Tail(fetched), Tail(outcome))

\* lines 196-224: the batched query for the missing dates and the re-caching
GetPerformanceQuery(c) ==
    LET L == call[c] IN
    /\ L.op = "get_performance" /\ L.pc = "query"
    /\ \E failed \in IF L.missing_dates = <<>> THEN {FALSE} ELSE StatementFails(faults) :
       \* [].fetchall() raises AttributeError, caught at line 223
       LET fetched == IF L.missing_dates = <<>> \/ failed THEN <<>>
                      ELSE PerformanceQuery(index_performance, L.missing_dates)
       IN
       /\ faults' = IF failed THEN faults - 1 ELSE faults
       /\ \E outcome \in [1..Len(fetched) -> Replies \X Replies] :
             LET w == RecacheDays(connected, redis, index_performance, fetched, outcome)
             IN  /\ \A i \in 1..Len(fetched) :
                       \/ outcome[i][1] = "ok"
                       \/ ~connected /\ \A j \in 1..(i - 1) : outcome[j][1] # "ok"
                 /\ redis' = w.store
                 /\ connected' = w.connected
       /\ call' = [call EXCEPT ![c] =
             [L EXCEPT !.daily_returns =
                           [d \in DOMAIN @ \cup Range(fetched) |->
                               IF d \in Range(fetched) THEN index_performance[d] ELSE @[d]],
                       !.pc = "finish"]]
    /\ UNCHANGED <<first_weekday, daily_data, index_composition, index_performance,
                   ret, windows, acquisitions, backend, run>>

\* lines 226-241: the cumulative return, the whole-range entry, the return
GetPerformanceFinish(c) ==
    LET L == call[c]
        performance_result ==
            Dict([daily_returns |-> L.daily_returns,
                  cumulative_return |-> CumulativeReturn(L.daily_returns)])
    IN
    /\ L.op = "get_performance" /\ L.pc = "finish"
    /\ \E ping \in PingReplies(connected), reply \in Replies :
          LET w == cache_set(connected, redis,
                             <<"index_perf:range", L.start_date, L.end_date>>,
                             write_to_cache_text(performance_result, TRUE), ping, reply)
          IN  /\ redis' = w.store
              /\ connected' = w.connected
    /\ call' = [call EXCEPT ![c] = Idle]
    /\ ret' = [ret EXCEPT ![c] =
          [op |-> "get_performance", start_date |-> L.start_date, end_date |-> L.end_date,
           raised |-> None, value |-> performance_result, fast |-> FALSE,
           response |-> get_index_performance_range(performance_result),
           clean |-> ~L.tainted]]
    /\ UNCHANGED <<first_weekday, daily_data, index_composition, index_performance,
                   windows, acquisitions, backend, faults, run>>

----------------------------------------------------------------------------
(* app/services/index_calculator.py: get_composition_changes *)

\* SELECT symbol FROM index_composition WHERE date = :date
CompositionSymbols(ic, d) == {k[2] : k \in {j \in DOMAIN ic : j[1] = d}}

\* A different diff: the two set differences change places
CompositionDiffSwapped(ic, current_date) ==
    LET current_symbols == CompositionSymbols(ic, current_date)
        previous_symbols == CompositionSymbols(ic, current_date - 1)
    IN  Dict([added |-> List(SortedSeq(previous_symbols \ current_symbols)),
              removed |-> List(SortedSeq(current_symbols \ previous_symbols))])

\* lines 259-289: the two queries and the dict `changes`
CompositionDiff(ic, current_date) ==
    LET current_symbols == CompositionSymbols(ic, current_date)
        previous_symbols == CompositionSymbols(ic, current_date - 1)
    IN  Dict([added |-> List(SortedSeq(current_symbols \ previous_symbols)),
              removed |-> List(SortedSeq(previous_symbols \ current_symbols))])

\* `x.get('added') or x.get('removed')`: a list is truthy when it is not empty
HasChanges(changes) ==
    changes.items.added.elems # <<>> \/ changes.items.removed.elems # <<>>

\* A different filter: every day is entered
RecordEveryDay(all_changes, d, changes) ==
    Append(all_changes, [date |-> d, changes |-> changes])

\* lines 254-255 and 295-296: all_changes[date] = changes, for a day with
\* changes only.  all_changes keeps its keys in the order they were entered.
RecordChanges(all_changes, d, changes) ==
    IF HasChanges(changes)
    THEN Append(all_changes, [date |-> d, changes |-> changes])
    ELSE all_changes

\* lines 243-245
GetCompositionChangesCall(c, s, e) ==
    /\ call[c] = Idle
    /\ <<s, e>> \in windows
    /\ call' = [call EXCEPT ![c] =
          [op |-> "get_composition_changes", pc |-> "while",
           start_date |-> s, end_date |-> e, current_date |-> s,
           all_changes |-> <<>>, tainted |-> FALSE]]
    /\ UNCHANGED <<first_weekday, daily_data, index_composition, index_performance,
                   redis, connected, ret, windows, acquisitions, backend, faults, run>>

\* lines 248-298: one turn of the loop
GetCompositionChangesDay(c) ==
    LET L == call[c]
        redis_key == build_single_date_key("composition_changes", L.current_date)
    IN
    /\ L.op = "get_composition_changes" /\ L.current_date <= L.end_date
    /\ \E ping \in PingReplies(connected), reply \in Replies :
          LET g == cache_get(connected, redis, redis_key, ping, reply)
              rc == read_from_cache(g.value, TRUE)
          IN  IF rc[1]
              THEN /\ call' = [call EXCEPT ![c] =
                         [L EXCEPT !.all_changes =
                                       RecordChanges(@, L.current_date, rc[2]),
                                   !.current_date = L.current_date + 1]]
                   /\ connected' = g.connected
                   /\ redis' = redis
                   /\ UNCHANGED <<ret, faults>>
              ELSE \E failed \in StatementFails(faults) :
                   /\ faults' = IF failed THEN faults - 1 ELSE faults
                   /\ IF failed
                      \* [].fetchall() raises AttributeError; lines 301-303 raise it on
                      THEN /\ call' = [call EXCEPT ![c] = Idle]
                           /\ ret' = [ret EXCEPT ![c] =
                                 [op |-> "get_composition_changes",
                                  start_date |-> L.start_date, end_date |-> L.end_date,
                                  raised |-> "AttributeError", clean |-> ~L.tainted]]
                           /\ connected' = g.connected
                           /\ redis' = redis
                      ELSE \E ping2 \in PingReplies(g.connected), reply2 \in Replies :
                           LET changes ==
                                   CompositionDiff(index_composition, L.current_date)
                               w == cache_set(g.connected, redis, redis_key,
                                              write_to_cache_text(changes, TRUE),
                                              ping2, reply2)
                           IN  /\ call' = [call EXCEPT ![c] =
                                     [L EXCEPT !.all_changes =
                                                   RecordChanges(@, L.current_date, changes),
                                               !.current_date = L.current_date + 1]]
                               /\ connected' = w.connected
                               /\ redis' = w.store
                               /\ ret' = ret
    /\ UNCHANGED <<first_weekday, daily_data, index_composition, index_performance,
                   windows, acquisitions, backend, run>>

\* line 299: return all_changes
GetCompositionChangesReturn(c) ==
    LET L == call[c] IN
    /\ L.op = "get_composition_changes" /\ L.current_date > L.end_date
    /\ call' = [call EXCEPT ![c] = Idle]
    /\ ret' = [ret EXCEPT ![c] =
          [op |-> "get_composition_changes", start_date |-> L.start_date,
           end_date |-> L.end_date, raised |-> None, value |-> L.all_changes,
           clean |-> ~L.tainted]]
    /\ UNCHANGED <<first_weekday, daily_data, index_composition, index_performance,
                   redis, connected, windows, acquisitions, backend, faults, run>>

----------------------------------------------------------------------------
(* app/services/index_calculator.py: get_composition_for_date *)

\* One element of the list `composition` (lines 327-333): the LEFT JOIN gives
\* NULL for the price and the market cap of a member without a daily_data row
CompositionEntry(dd, s, d) ==
    IF HasRow(dd, s, d)
    THEN [symbol |-> s, price |-> dd[<<s, d>>].price,
          market_cap |-> dd[<<s, d>>].market_cap]
    ELSE [symbol |-> s, price |-> 0, market_cap |-> 0]

\* lines 313-333: SELECT ... WHERE ic.date = :date ORDER BY dd.market_cap DESC.
\* SQLite puts NULL after every value in a descending order, and rows of
\* equal market_cap in either order: the result is one of a set of lists.
CompositionQuery(ic, dd, d) ==
    LET members == CompositionSymbols(ic, d)
        key(s) == IF HasRow(dd, s, d) THEN dd[<<s, d>>].market_cap ELSE -1
    IN  {[i \in DOMAIN q |-> CompositionEntry(dd, q[i], d)] :
            q \in {p \in [1..Cardinality(members) -> members] :
                      /\ \A i \in DOMAIN p : \A j \in DOMAIN p : p[i] = p[j] => i = j
                      /\ \A i \in DOMAIN p : \A j \in DOMAIN p :
                            i < j => key(p[i]) >= key(p[j])}}

\* line 309: `if success and cached_composition`
SnapshotHit(rc) == rc[1] /\ ~Falsy(rc[2])

\* A different test: the list is cached whatever it holds
SnapshotAlwaysCached(composition) == TRUE

\* line 336: `if composition`
SnapshotWorthCaching(composition) == composition # <<>>

\* lines 305-343: the whole call
GetCompositionForDate(c, d) ==
    LET redis_key == build_single_date_key("top100_stocks", d)
        Return(r) ==
            ret' = [ret EXCEPT ![c] =
                      [op |-> "get_composition_for_date", date |-> d, clean |-> TRUE] @@ r]
    IN
    /\ call[c] = Idle
    /\ \E ping \in PingReplies(connected), reply \in Replies :
          LET g == cache_get(connected, redis, redis_key, ping, reply)
              rc == read_from_cache(g.value, TRUE)
          IN  IF SnapshotHit(rc)
              THEN /\ Return([raised |-> None, value |-> rc[2], from_cache |-> TRUE])
                   /\ connected' = g.connected
                   /\ UNCHANGED <<redis, faults>>
              ELSE \E failed \in StatementFails(faults) :
                   IF failed
                   \* [].fetchall() raises AttributeError; lines 341-343 raise it on
                   THEN /\ Return([raised |-> "AttributeError"])
                        /\ connected' = g.connected
                        /\ faults' = faults - 1
                        /\ redis' = redis
                   ELSE \E composition \in CompositionQuery(index_composition, daily_data, d) :
                        /\ Return([raised |-> None, value |-> List(composition),
                                   from_cache |-> FALSE])
                        /\ faults' = faults
                        /\ IF SnapshotWorthCaching(composition)
                           THEN \E ping2 \in PingReplies(g.connected), reply2 \in Replies :
                                LET w == cache_set(g.connected, redis, redis_key,
                                                   write_to_cache_text(List(composition), TRUE),
                                                   ping2, reply2)
                                IN  /\ redis' = w.store
                                    /\ connected' = w.connected
                           ELSE /\ redis' = redis
                                /\ connected' = g.connected
    /\ UNCHANGED <<first_weekday, daily_data, index_composition, index_performance,
                   call, windows, acquisitions, backend, run>>

----------------------------------------------------------------------------
(* app/services/data_acquisition.py: one day of run_acquisition, as the     *)
(* other sessions see it: the cache write, then the day's committed rows    *)

ListingLimit == 100

\* sorted(market_caps.items(), key=market_cap, reverse=True): a stable sort, so
\* candidates of equal market cap keep the listing's (symbol) order
RECURSIVE SortByMarketCap(_, _)
SortByMarketCap(S, d) ==
    IF S = {} THEN <<>>
    ELSE LET m == CHOOSE x \in S : \A y \in S :
                    \/ DailyRow(x, d).market_cap > DailyRow(y, d).market_cap
                    \/ /\ DailyRow(x, d).market_cap = DailyRow(y, d).market_cap
                       /\ x <= y
         IN  <<m>> \o SortByMarketCap(S \ {m}, d)

\* fetch_stocks_for_date(d) when the listing fetch succeeds and the provider
\* has a valid quote (price > 0, volume > 0) for the candidates in quoted
fetch_stocks_for_date(quoted, d) ==
    LET valid == {s \in quoted : Close(s, d) > 0 /\ Volume(s, d) > 0}
        sorted == SortByMarketCap(valid, d)
    IN  SubSeq(sorted, 1, Min(ListingLimit, Len(sorted)))

\* The listings: the candidates with a quote, in the order in which the rows
\* of the listing file present them
Listings ==
    UNION {{q \in [1..Cardinality(S) -> S] :
               \A i \in DOMAIN q : \A j \in DOMAIN q : q[i] = q[j] => i = j} :
           S \in SUBSET Listed}

\* lines 116-120: sorted(market_caps.items(), key=market_cap, reverse=True) of
\* a dict filled in the order of the listing.  The sort is stable: candidates
\* of equal market cap stay in the order of the listing.
RECURSIVE sorted_by_market_cap(_, _)
sorted_by_market_cap(items, d) ==
    IF items = <<>> THEN <<>>
    ELSE LET cap(i) == DailyRow(items[i], d).market_cap
             m == CHOOSE i \in DOMAIN items : \A j \in DOMAIN items :
                     cap(i) > cap(j) \/ (cap(i) = cap(j) /\ i <= j)
         IN  <<items[m]>>
             \o sorted_by_market_cap(SubSeq(items, 1, m - 1)
                                     \o SubSeq(items, m + 1, Len(items)), d)

\* lines 88-125: the candidates of the listing with price > 0 and volume > 0,
\* sorted, and the first 100 of them
top_100(listing, d) ==
    LET Valid(s) == Close(s, d) > 0 /\ Volume(s, d) > 0
        sorted == sorted_by_market_cap(SelectSeq(listing, Valid), d)
    IN  SubSeq(sorted, 1, Min(ListingLimit, Len(sorted)))

\* lines 174-183: cache_data
Top100CacheData(top, d) ==
    List([i \in 1..Len(top) |->
            [symbol |-> top[i], price |-> DailyRow(top[i], d).price,
             market_cap |-> DailyRow(top[i], d).market_cap]])

\* lines 187-222: the index_composition rows of the day's top 100
CompositionAfterDay(ic, top, d) ==
    LET total == RSum([i \in 1..Len(top) |-> RInt(DailyRow(top[i], d).market_cap)],
                      1..Len(top))
    IN  [k \in DOMAIN ic \cup {<<d, top[i]>> : i \in 1..Len(top)} |->
            IF k[1] = d /\ k[2] \in Range(top)
            THEN LET rank == CHOOSE i \in 1..Len(top) : top[i] = k[2]
                 IN  [rank |-> rank,
                      weight |-> IF total[1] > 0
                                 THEN RMul(RDiv(RInt(DailyRow(k[2], d).market_cap), total),
                                           RInt(100))
                                 ELSE RZero]
            ELSE ic[k]]

\* A different day: only the rows of the top 100 are written
DailyDataTopOnly(dd, top, fetched_dropped, d) ==
    [k \in DOMAIN dd \cup {<<s, d>> : s \in Range(top)} |->
        IF k[2] = d /\ k[1] \in Range(top) THEN DailyRow(k[1], d) ELSE dd[k]]

\* lines 225-264: the daily_data rows of the top 100 and of the dropped symbols
\* (those of prev_symbols outside the top 100) for which fetch_stock_data
\* returned data
DailyDataAfterDay(dd, top, fetched_dropped, d) ==
    [k \in DOMAIN dd \cup {<<s, d>> : s \in Range(top) \cup fetched_dropped} |->
        IF k[2] = d /\ k[1] \in Range(top) \cup fetched_dropped
        THEN DailyRow(k[1], d) ELSE dd[k]]

\* run_acquisition(days=1) for the date d: lines 163-278 with prev_symbols = {}
AcquisitionDay(d, quoted) ==
    LET top == fetch_stocks_for_date(quoted, d) IN
    /\ acquisitions < MaxAcquisitions
    /\ acquisitions' = acquisitions + 1
    /\ \E ping \in PingReplies(FALSE), reply \in Replies :
          redis' = cache_set(FALSE, redis, build_single_date_key("top100_stocks", d),
                             json_dumps(Top100CacheData(top, d)), ping, reply).store
    /\ index_composition' = CompositionAfterDay(index_composition, top, d)
    /\ daily_data' = DailyDataAfterDay(daily_data, top, {}, d)
    /\ call' = [c \in DOMAIN call |->
                   IF daily_data' # daily_data THEN Taint(call[c]) ELSE call[c]]
    /\ ret' = [c \in DOMAIN ret |->
                   IF daily_data' # daily_data THEN Unclean(ret[c]) ELSE ret[c]]
    /\ UNCHANGED <<first_weekday, index_performance, connected, windows, backend, faults, run>>

----------------------------------------------------------------------------
(* app/services/data_acquisition.py: run_acquisition over several days, one *)
(* action per turn of its loop (one database transaction)                   *)

\* The one statement of the day the database fails, if any: an insert of a
\* top-100 symbol (caught at line 239), the insert of a dropped symbol
\* (caught at line 264), or the commit (caught at line 272)
NoFault == [kind |-> "none", symbol |-> 0]
DayFaults(budget, top, fetched) ==
    {NoFault} \cup
    IF budget = 0 THEN {}
    ELSE {[kind |-> "commit", symbol |-> 0]}
         \cup {[kind |-> k, symbol |-> x] :
                  k \in {"index_composition", "daily_data"}, x \in Range(top)}
         \cup {[kind |-> "dropped", symbol |-> x] : x \in fetched}

\* The table after a batch of INSERT OR REPLACE of which those on the keys
\* in lost raised: such a key keeps the row it had, or stays without one
ExceptLost(old, new, lost) ==
    [k \in DOMAIN new \ (lost \ DOMAIN old) |-> IF k \in lost THEN old[k] ELSE new[k]]

\* A different handler: the failed day's writes stay
RollbackKeeps(old, new) == new

\* line 274: session.rollback() undoes what the day has executed
Rollback(old, new) == old

NoDay == [date |-> -1, status |-> "none", selected |-> {}, previous |-> {},
          fetched |-> {}, halted |-> {}, failed |-> {}]

\* lines 136-149: what fetch_stock_data returns for a symbol whose history
\* has a row for the day: the close and the volume as they are, the volume
\* being 0 on a day without trades (halted)
fetch_stock_data(s, d, halted) ==
    IF s \in halted
    THEN [price |-> Close(s, d), market_cap |-> 0, volume |-> 0]
    ELSE DailyRow(s, d)

\* A different step: the day's symbols become the baseline whether or not
\* the day has committed
BaselineOfEveryDay(prev_symbols, current_symbols, committed) == current_symbols

\* lines 268-274: prev_symbols = current_symbols follows the commit in the
\* try block, and is passed over when the day ends in the except
BaselineAfterDay(prev_symbols, current_symbols, committed) ==
    IF committed THEN current_symbols ELSE prev_symbols

\* A different step: the loop goes on two days at a time
NextDateSkipping(d) == d + 2

\* line 278: current_date += timedelta(days=1)
NextDate(d) == d + 1

\* lines 151-161: the call; the range ends the day before today
RunAcquisitionCall(days) ==
    /\ run = NoRun
    /\ acquisitions < MaxAcquisitions
    /\ acquisitions' = acquisitions + 1
    /\ run' = [op |-> "run_acquisition", current_date |-> MaxDate + 1 - days,
               end_date |-> MaxDate + 1, prev_symbols |-> {}, connected |-> FALSE,
               rolled_back |-> {}, last |-> NoDay]
    /\ UNCHANGED <<first_weekday, daily_data, index_composition, index_performance,
                   redis, connected, call, ret, windows, backend, faults>>

\* lines 163-278: one day.  quoted are the listed symbols with a valid quote
\* (none when the listing could not be fetched), fetched the dropped symbols
\* for which fetch_stock_data returned data, halted those of them whose
\* volume of the day is 0 (a quote line 102 keeps out of the top 100).
RunAcquisitionDay(quoted) ==
    LET d == run.current_date
        top == fetch_stocks_for_date(quoted, d)
        current_symbols == Range(top)
        dropped_symbols == run.prev_symbols \ current_symbols
    IN
    /\ run.op = "run_acquisition" /\ run.current_date < run.end_date
    /\ \E ping \in PingReplies(run.connected), reply \in Replies,
          fetched \in SUBSET dropped_symbols :
       \E halted \in SUBSET fetched, fault \in DayFaults(faults, top, fetched) :
          LET w == cache_set(run.connected, redis,
                             build_single_date_key("top100_stocks", d),
                             json_dumps(Top100CacheData(top, d)), ping, reply)
              lost_composition ==
                  IF fault.kind = "index_composition" THEN {<<d, fault.symbol>>} ELSE {}
              lost_daily ==
                  IF fault.kind \in {"index_composition", "daily_data", "dropped"}
                  THEN {<<fault.symbol, d>>} ELSE {}
              executed_composition ==
                  ExceptLost(index_composition,
                             CompositionAfterDay(index_composition, top, d),
                             lost_composition)
              inserted == DailyDataAfterDay(daily_data, top, fetched, d)
              executed_daily ==
                  ExceptLost(daily_data,
                             [k \in DOMAIN inserted |->
                                 IF k[2] = d /\ k[1] \in fetched
                                 THEN fetch_stock_data(k[1], d, halted)
                                 ELSE inserted[k]],
                             lost_daily)
              committed == fault.kind # "commit"
          IN  /\ redis' = w.store
              /\ faults' = IF fault = NoFault THEN faults ELSE faults - 1
              /\ index_composition' =
                    IF committed THEN executed_composition
                    ELSE Rollback(index_composition, executed_composition)
              /\ daily_data' =
                    IF committed THEN executed_daily
                    ELSE Rollback(daily_data, executed_daily)
              /\ run' = [run EXCEPT
                    !.current_date = NextDate(d),
                    !.connected = w.connected,
                    !.prev_symbols = BaselineAfterDay(@, current_symbols, committed),
                    !.rolled_back = IF committed THEN @ ELSE @ \cup {d},
                    !.last = [date |-> d,
                              status |-> IF committed THEN "committed" ELSE "rolled back",
                              selected |-> current_symbols,
                              previous |-> run.prev_symbols,
                              fetched |-> fetched,
                              halted |-> halted,
                              failed |-> IF fault.kind = "dropped"
                                         THEN {fault.symbol} ELSE {}]]
    /\ call' = [c \in DOMAIN call |->
                   IF daily_data' # daily_data THEN Taint(call[c]) ELSE call[c]]
    /\ ret' = [c \in DOMAIN ret |->
                   IF daily_data' # daily_data THEN Unclean(ret[c]) ELSE ret[c]]
    /\ UNCHANGED <<first_weekday, index_performance, connected, windows, acquisitions,
                   backend>>

\* line 280: the loop is over
RunAcquisitionEnd ==
    /\ run.op = "run_acquisition" /\ run.current_date >= run.end_date
    /\ run' = NoRun
    /\ UNCHANGED <<first_weekday, daily_data, index_composition, index_performance,
                   redis, connected, call, ret, windows, acquisitions, backend, faults>>

----------------------------------------------------------------------------
(* app/services/data_acquisition.py: fetch_stocks_for_date, attempt by      *)
(* attempt                                                                  *)

max_retries == 3
retry_delay == 5  \* seconds

\* A different test: a failed attempt is always followed by the sleep
RetryAlways(attempt) == TRUE

\* line 129: if attempt < max_retries - 1
RetryAllowed(attempt) == attempt < max_retries - 1

\* lines 54-57: the call
FetchStocksCall(c, d) ==
    /\ call[c] = Idle
    /\ call' = [call EXCEPT ![c] =
          [op |-> "fetch_stocks_for_date", pc |-> "attempt", target_date |-> d,
           attempt |-> 0, slept |-> 0, tainted |-> FALSE]]
    /\ UNCHANGED <<first_weekday, daily_data, index_composition, index_performance,
                   redis, connected, ret, windows, acquisitions, backend, faults, run>>

\* lines 57-134: one attempt.  Either it goes through (listing holds the
\* candidates with a quote; a candidate whose quote raised is left out at
\* lines 111-113; presented are the listings the exchange may present) or it
\* raises outside the per-symbol loop.  After
\* max_retries turns the for loop is over and the function returns None.
FetchStocksAttempt(c, presented) ==
    LET L == call[c]
        Return(v, listing) ==
            /\ call' = [call EXCEPT ![c] = Idle]
            /\ ret' = [ret EXCEPT ![c] =
                  [op |-> "fetch_stocks_for_date", target_date |-> L.target_date,
                   raised |-> None, value |-> v, listing |-> listing,
                   attempts |-> IF L.attempt < max_retries THEN L.attempt + 1
                                ELSE L.attempt,
                   slept |-> L.slept, clean |-> ~L.tainted]]
    IN
    /\ L.op = "fetch_stocks_for_date" /\ L.pc = "attempt"
    /\ IF L.attempt >= max_retries
       THEN Return(PyNone, <<>>)
       ELSE \E raised \in BOOLEAN, listing \in presented :
               IF ~raised
               THEN Return(List(top_100(listing, L.target_date)), listing)
               ELSE /\ listing = <<>>
                    /\ IF RetryAllowed(L.attempt)
                       THEN /\ call' = [call EXCEPT ![c].pc = "sleep"]
                            /\ ret' = ret
                       ELSE Return(List(<<>>), <<>>)
    /\ UNCHANGED <<first_weekday, daily_data, index_composition, index_performance,
                   redis, connected, windows, acquisitions, backend, faults, run>>

\* line 131: await asyncio.sleep(retry_delay), then the next turn of the loop
FetchStocksSleep(c) ==
    /\ call[c].op = "fetch_stocks_for_date" /\ call[c].pc = "sleep"
    /\ call' = [call EXCEPT ![c].pc = "attempt",
                            ![c].attempt = @ + 1,
                            ![c].slept = @ + retry_delay]
    /\ UNCHANGED <<first_weekday, daily_data, index_composition, index_performance,
                   redis, connected, ret, windows, acquisitions, backend, faults, run>>

\* The TTL of a key runs out (every key is written with ex=expire)
Expire(key) ==
    /\ key \in DOMAIN redis
    /\ redis' = [k \in DOMAIN redis \ {key} |-> redis[k]]
    /\ UNCHANGED <<first_weekday, daily_data, index_composition, index_performance,
                   connected, call, ret, windows, acquisitions, backend, faults, run>>

----------------------------------------------------------------------------
(* The index service: a persistent store left by earlier acquisition runs,  *)
(* an empty cache, one client of the router                                 *)

\* The store after run_acquisition has committed, for each date d, the
\* candidates quoted[d] (no symbol dropped out with data still fetchable)
StoreAfterRuns(quoted) ==
    [k \in {j \in Listed \X Dates : j[1] \in quoted[j[2]]} |-> DailyRow(k[1], k[2])]

CompositionAfterRuns(quoted) ==
    [k \in {j \in Dates \X Listed : j[2] \in quoted[j[1]]} |->
        CompositionAfterDay(<<>>, fetch_stocks_for_date(quoted[k[1]], k[1]), k[1])[k]]

Init ==
    /\ first_weekday \in FirstWeekdays
    /\ \E quoted \in [Dates -> Quotable] :
          /\ daily_data = StoreAfterRuns(quoted)
          /\ index_composition = CompositionAfterRuns(quoted)
    /\ index_performance = <<>>
    /\ redis = <<>>
    /\ connected = FALSE
    /\ call = [c \in {1} |-> Idle]
    /\ ret = [c \in {1} |-> NoReturn]
    /\ \E s \in Dates, e \in Dates : s <= e /\ windows = {<<s, e>>}
    /\ acquisitions = 0
    /\ backend = NoOperation
    /\ faults = 0
    /\ run = NoRun

Next ==
    \/ \E c \in DOMAIN call, w \in windows : BuildIndexCall(c, w[1], w[2])
    \/ \E c \in DOMAIN call : BuildIndexWhile(c)
    \/ \E c \in DOMAIN call : BuildIndexDay(c)
    \/ \E c \in DOMAIN call : BuildIndexCompute(c)
    \/ \E c \in DOMAIN call : BuildIndexFinish(c)
    \/ \E c \in DOMAIN call, w \in windows : GetPerformanceCall(c, w[1], w[2])
    \/ \E c \in DOMAIN call : GetPerformanceDay(c)
    \/ \E c \in DOMAIN call : GetPerformanceQuery(c)
    \/ \E c \in DOMAIN call : GetPerformanceFinish(c)
    \/ \E key \in DOMAIN redis : Expire(key)

Spec == Init /\ [][Next]_vars

----------------------------------------------------------------------------
(* The same service while an acquisition run re-writes days of the store    *)

NextCorrection ==
    \/ \E c \in DOMAIN call, w \in windows : BuildIndexCall(c, w[1], w[2])
    \/ \E c \in DOMAIN call : BuildIndexWhile(c)
    \/ \E c \in DOMAIN call : BuildIndexDay(c)
    \/ \E c \in DOMAIN call : BuildIndexCompute(c)
    \/ \E c \in DOMAIN call : BuildIndexFinish(c)
    \/ \E d \in Dates, quoted \in Quotable : AcquisitionDay(d, quoted)
    \/ \E key \in DOMAIN redis : Expire(key)

SpecCorrection == Init /\ [][NextCorrection]_vars

----------------------------------------------------------------------------
(* The composition endpoint over the compositions earlier runs have left:   *)
(* each day's top 100 is the listing less at most one symbol                *)

Compositions == {S \in SUBSET Listed : Cardinality(S) >= NumListed - 1}

InitComposition ==
    /\ first_weekday = CHOOSE w \in FirstWeekdays : TRUE
    /\ \E quoted \in [Dates -> Compositions] :
          /\ daily_data = StoreAfterRuns(quoted)
          /\ index_composition = CompositionAfterRuns(quoted)
    /\ index_performance = <<>>
    /\ redis = <<>>
    /\ connected = FALSE
    /\ call = [c \in {1} |-> Idle]
    /\ ret = [c \in {1} |-> NoReturn]
    /\ \E s \in Dates, e \in Dates : s <= e /\ windows = {<<s, e>>}
    /\ acquisitions = 0
    /\ backend = NoOperation
    /\ faults = 0
    /\ run = NoRun

NextComposition ==
    \/ \E c \in DOMAIN call, w \in windows : GetCompositionChangesCall(c, w[1], w[2])
    \/ \E c \in DOMAIN call : GetCompositionChangesDay(c)
    \/ \E c \in DOMAIN call : GetCompositionChangesReturn(c)
    \/ \E key \in DOMAIN redis : Expire(key)

SpecComposition == InitComposition /\ [][NextComposition]_vars

----------------------------------------------------------------------------
(* app/cache/cache.py: one RedisCache instance called directly.  backend    *)
(* holds what the last call met and what it gave back.                      *)

CacheKeys == {build_single_date_key("daily_return", d) : d \in Dates}
CacheTexts == {PyStr(RZero), PyStr(Rat(1, 10))}

Outcome(op, key, g, ping, reply) ==
    [op |-> op, key |-> key, was_connected |-> connected,
     ping |-> IF g.pinged THEN ping ELSE Unsent,
     reply |-> IF g.issued THEN reply ELSE Unsent,
     issued |-> g.issued, raised |-> g.raised]

CacheGet(key) ==
    /\ \E ping \in PingReplies(connected), reply \in Replies :
          LET g == cache_get(connected, redis, key, ping, reply)
          IN  /\ connected' = g.connected
              /\ redis' = g.store
              /\ backend' = [result |-> g.value] @@ Outcome("get", key, g, ping, reply)
    /\ UNCHANGED <<first_weekday, daily_data, index_composition, index_performance,
                   call, ret, windows, acquisitions, faults, run>>

CacheSet(key, text) ==
    /\ \E ping \in PingReplies(connected), reply \in Replies :
          LET g == cache_set(connected, redis, key, text, ping, reply)
          IN  /\ connected' = g.connected
              /\ redis' = g.store
              /\ backend' = [done |-> g.value] @@ Outcome("set", key, g, ping, reply)
    /\ UNCHANGED <<first_weekday, daily_data, index_composition, index_performance,
                   call, ret, windows, acquisitions, faults, run>>

CacheDelete(key) ==
    /\ \E ping \in PingReplies(connected), reply \in Replies :
          LET g == cache_delete(connected, redis, key, ping, reply)
          IN  /\ connected' = g.connected
              /\ redis' = g.store
              /\ backend' = [done |-> g.value] @@ Outcome("delete", key, g, ping, reply)
    /\ UNCHANGED <<first_weekday, daily_data, index_composition, index_performance,
                   call, ret, windows, acquisitions, faults, run>>

InitCache ==
    /\ first_weekday = CHOOSE w \in FirstWeekdays : TRUE
    /\ daily_data = <<>>
    /\ index_composition = <<>>
    /\ index_performance = <<>>
    /\ redis = <<>>
    /\ connected = FALSE
    /\ call = [c \in {1} |-> Idle]
    /\ ret = [c \in {1} |-> NoReturn]
    /\ windows = {}
    /\ acquisitions = 0
    /\ backend = NoOperation
    /\ faults = 0
    /\ run = NoRun

NextCache ==
    \/ \E key \in CacheKeys : CacheGet(key)
    \/ \E key \in CacheKeys, text \in CacheTexts : CacheSet(key, text)
    \/ \E key \in CacheKeys : CacheDelete(key)
    \/ \E key \in DOMAIN redis : Expire(key)

SpecCache == InitCache /\ [][NextCache]_vars

----------------------------------------------------------------------------
(* The service over a database that fails some of its statements *)

InitFailure ==
    /\ first_weekday \in FirstWeekdays
    /\ \E quoted \in [Dates -> Quotable] :
          /\ daily_data = StoreAfterRuns(quoted)
          /\ index_composition = CompositionAfterRuns(quoted)
    /\ index_performance = <<>>
    /\ redis = <<>>
    /\ connected = FALSE
    /\ call = [c \in {1} |-> Idle]
    /\ ret = [c \in {1} |-> NoReturn]
    /\ \E s \in Dates, e \in Dates : s <= e /\ windows = {<<s, e>>}
    /\ acquisitions = 0
    /\ backend = NoOperation
    /\ faults = MaxFaults
    /\ run = NoRun

NextFailure ==
    \/ \E c \in DOMAIN call, w \in windows : BuildIndexCall(c, w[1], w[2])
    \/ \E c \in DOMAIN call : BuildIndexWhile(c)
    \/ \E c \in DOMAIN call : BuildIndexDay(c)
    \/ \E c \in DOMAIN call : BuildIndexCompute(c)
    \/ \E c \in DOMAIN call : BuildIndexFinish(c)
    \/ \E c \in DOMAIN call, w \in windows : GetCompositionChangesCall(c, w[1], w[2])
    \/ \E c \in DOMAIN call : GetCompositionChangesDay(c)
    \/ \E c \in DOMAIN call : GetCompositionChangesReturn(c)

SpecFailure == InitFailure /\ [][NextFailure]_vars

----------------------------------------------------------------------------
(* build_index over a Redis that other clients write to as well *)

\* What another client may leave under a daily_return key: a JSON list, a
\* JSON object, a text that is no number
ForeignTexts == {json_dumps(List(<<>>)), json_dumps(Dict(<<>>)), RawText("n/a")}

\* Another client of the Redis server SETs a daily_return key (one such
\* entry at a time)
ForeignWrite(d, text) ==
    /\ \A k \in DOMAIN redis : redis[k] \notin ForeignTexts
    /\ redis' = [k \in DOMAIN redis \cup {build_single_date_key("daily_return", d)} |->
                    IF k = build_single_date_key("daily_return", d) THEN text
                    ELSE redis[k]]
    /\ UNCHANGED <<first_weekday, daily_data, index_composition, index_performance,
                   connected, call, ret, windows, acquisitions, backend, faults, run>>

NextForeign ==
    \/ \E c \in DOMAIN call, w \in windows : BuildIndexCall(c, w[1], w[2])
    \/ \E c \in DOMAIN call : BuildIndexWhile(c)
    \/ \E c \in DOMAIN call : BuildIndexDay(c)
    \/ \E c \in DOMAIN call : BuildIndexCompute(c)
    \/ \E c \in DOMAIN call : BuildIndexFinish(c)
    \/ \E d \in Dates, text \in ForeignTexts : ForeignWrite(d, text)

SpecForeign == Init /\ [][NextForeign]_vars

----------------------------------------------------------------------------
(* build_index asked for every window of the dates in turn, over one store  *)

AllWindows == {w \in Dates \X Dates : w[1] <= w[2]}

InitWindows ==
    /\ first_weekday \in FirstWeekdays
    /\ \E quoted \in [Dates -> Quotable] :
          /\ daily_data = StoreAfterRuns(quoted)
          /\ index_composition = CompositionAfterRuns(quoted)
    /\ index_performance = <<>>
    /\ redis = <<>>
    /\ connected = FALSE
    /\ call = [c \in {1} |-> Idle]
    /\ ret = [c \in {1} |-> NoReturn]
    /\ windows = AllWindows
    /\ acquisitions = 0
    /\ backend = NoOperation
    /\ faults = 0
    /\ run = NoRun

NextWindows ==
    \/ \E c \in DOMAIN call, w \in windows : BuildIndexCall(c, w[1], w[2])
    \/ \E c \in DOMAIN call : BuildIndexWhile(c)
    \/ \E c \in DOMAIN call : BuildIndexDay(c)
    \/ \E c \in DOMAIN call : BuildIndexCompute(c)
    \/ \E c \in DOMAIN call : BuildIndexFinish(c)
    \/ \E key \in DOMAIN redis : Expire(key)

SpecWindows == InitWindows /\ [][NextWindows]_vars

----------------------------------------------------------------------------
(* build_index over a store with the gaps of the trading calendar: no row   *)
(* on a Saturday or a Sunday, none on a holiday                             *)

InitCalendar ==
    /\ first_weekday \in FirstWeekdays \cup {0}
    /\ \E quoted \in [Dates -> Quotable \cup {{}}] :
          /\ \A d \in Dates : Weekday(d) >= 5 => quoted[d] = {}
          /\ daily_data = StoreAfterRuns(quoted)
          /\ index_composition = CompositionAfterRuns(quoted)
    /\ index_performance = <<>>
    /\ redis = <<>>
    /\ connected = FALSE
    /\ call = [c \in {1} |-> Idle]
    /\ ret = [c \in {1} |-> NoReturn]
    /\ \E s \in Dates, e \in Dates : s <= e /\ windows = {<<s, e>>}
    /\ acquisitions = 0
    /\ backend = NoOperation
    /\ faults = 0
    /\ run = NoRun

NextCalendar ==
    \/ \E c \in DOMAIN call, w \in windows : BuildIndexCall(c, w[1], w[2])
    \/ \E c \in DOMAIN call : BuildIndexWhile(c)
    \/ \E c \in DOMAIN call : BuildIndexDay(c)
    \/ \E c \in DOMAIN call : BuildIndexCompute(c)
    \/ \E c \in DOMAIN call : BuildIndexFinish(c)
    \/ \E key \in DOMAIN redis : Expire(key)

SpecCalendar == InitCalendar /\ [][NextCalendar]_vars

----------------------------------------------------------------------------
(* run_acquisition on a new database that fails some statements *)

InitAcquisition ==
    /\ first_weekday = CHOOSE w \in FirstWeekdays : TRUE
    /\ daily_data = <<>>
    /\ index_composition = <<>>
    /\ index_performance = <<>>
    /\ redis = <<>>
    /\ connected = FALSE
    /\ call = [c \in {1} |-> Idle]
    /\ ret = [c \in {1} |-> NoReturn]
    /\ windows = {}
    /\ acquisitions = 0
    /\ backend = NoOperation
    /\ faults = MaxFaults
    /\ run = NoRun

NextAcquisition ==
    \/ \E days \in 1..(MaxDate + 1) : RunAcquisitionCall(days)
    \/ \E quoted \in SUBSET Symbols : RunAcquisitionDay(quoted)
    \/ RunAcquisitionEnd

SpecAcquisition == InitAcquisition /\ [][NextAcquisition]_vars

\* The same run, whose coroutine the event loop resumes whenever the await
\* it stands at has completed
SpecSequential ==
    /\ InitAcquisition
    /\ [][NextAcquisition]_vars
    /\ WF_vars(\E quoted \in SUBSET Symbols : RunAcquisitionDay(quoted))
    /\ WF_vars(RunAcquisitionEnd)

----------------------------------------------------------------------------
(* Two requests to POST /build-index served concurrently: the coroutines  *)
(* share the module's RedisCache and interleave at every await            *)

RaceCallers == {1, 2}

InitRace ==
    /\ first_weekday = CHOOSE w \in FirstWeekdays : TRUE
    /\ \E quoted \in [Dates -> Quotable] :
          /\ daily_data = StoreAfterRuns(quoted)
          /\ index_composition = CompositionAfterRuns(quoted)
    /\ index_performance = <<>>
    /\ redis = <<>>
    /\ connected = FALSE
    /\ call = [c \in RaceCallers |-> Idle]
    /\ ret = [c \in RaceCallers |-> NoReturn]
    /\ \E d \in Dates : d >= 1 /\ windows = {<<d, d>>}
    /\ acquisitions = 0
    /\ backend = NoOperation
    /\ faults = 0
    /\ run = NoRun

\* A request that arrives before the other caller has returned from a
\* request made over the present daily_data: whenever both callers hold such
\* a return, the two calls ran at the same time
OverlappingCall(c, s, e) ==
    /\ \A o \in DOMAIN call \ {c} : IF ret[o] = NoReturn THEN TRUE ELSE ~ret[o].clean
    /\ BuildIndexCall(c, s, e)

NextRace ==
    \/ \E c \in DOMAIN call, w \in windows : OverlappingCall(c, w[1], w[2])
    \/ \E c \in DOMAIN call : BuildIndexWhile(c)
    \/ \E c \in DOMAIN call : BuildIndexDay(c)
    \/ \E c \in DOMAIN call : BuildIndexCompute(c)
    \/ \E c \in DOMAIN call : BuildIndexFinish(c)
    \/ \E d \in Dates, quoted \in Quotable : AcquisitionDay(d, quoted)

SpecRace == InitRace /\ [][NextRace]_vars

----------------------------------------------------------------------------
(* Every operation that writes the cache, with the acquisition and the TTL *)

InitLifecycle ==
    /\ first_weekday = CHOOSE w \in FirstWeekdays : TRUE
    /\ LET quoted == [d \in Dates |-> Symbols]
       IN  /\ daily_data = StoreAfterRuns(quoted)
           /\ index_composition = CompositionAfterRuns(quoted)
    /\ index_performance = <<>>
    /\ redis = <<>>
    /\ connected = FALSE
    /\ call = [c \in {1} |-> Idle]
    /\ ret = [c \in {1} |-> NoReturn]
    /\ windows = {<<MaxDate, MaxDate>>}
    /\ acquisitions = 0
    /\ backend = NoOperation
    /\ faults = 0
    /\ run = NoRun

NextLifecycle ==
    \/ \E c \in DOMAIN call, w \in windows : BuildIndexCall(c, w[1], w[2])
    \/ \E c \in DOMAIN call : BuildIndexWhile(c)
    \/ \E c \in DOMAIN call : BuildIndexDay(c)
    \/ \E c \in DOMAIN call : BuildIndexCompute(c)
    \/ \E c \in DOMAIN call : BuildIndexFinish(c)
    \/ \E c \in DOMAIN call, w \in windows : GetPerformanceCall(c, w[1], w[2])
    \/ \E c \in DOMAIN call : GetPerformanceDay(c)
    \/ \E c \in DOMAIN call : GetPerformanceQuery(c)
    \/ \E c \in DOMAIN call : GetPerformanceFinish(c)
    \/ \E c \in DOMAIN call, w \in windows : GetCompositionChangesCall(c, w[1], w[2])
    \/ \E c \in DOMAIN call : GetCompositionChangesDay(c)
    \/ \E c \in DOMAIN call : GetCompositionChangesReturn(c)
    \/ \E d \in Dates, quoted \in Quotable : AcquisitionDay(d, quoted)
    \/ \E key \in DOMAIN redis : Expire(key)

SpecLifecycle == InitLifecycle /\ [][NextLifecycle]_vars

----------------------------------------------------------------------------
(* fetch_stocks_for_date called day after day.  The event loop resumes a   *)
(* coroutine whose await has completed, and the HTTP call and the sleep of  *)
(* an attempt complete: the steps of a call in progress are taken.          *)

\* The listings in the order of the symbols
AlphabeticalListings == {SortedSeq(S) : S \in SUBSET Listed}

NextRetry ==
    \/ \E c \in DOMAIN call, d \in Dates : FetchStocksCall(c, d)
    \/ \E c \in DOMAIN call : FetchStocksAttempt(c, AlphabeticalListings)
    \/ \E c \in DOMAIN call : FetchStocksSleep(c)

SpecRetry ==
    /\ InitCache
    /\ [][NextRetry]_vars
    /\ WF_vars(\E c \in {1} : FetchStocksAttempt(c, AlphabeticalListings))
    /\ WF_vars(\E c \in {1} : FetchStocksSleep(c))

\* The same calls over every order of the listing
NextSelection ==
    \/ \E c \in DOMAIN call, d \in Dates : FetchStocksCall(c, d)
    \/ \E c \in DOMAIN call : FetchStocksAttempt(c, Listings)
    \/ \E c \in DOMAIN call : FetchStocksSleep(c)

SpecSelection == InitCache /\ [][NextSelection]_vars

----------------------------------------------------------------------------
(* A run of run_acquisition(days=1) over a store that earlier runs have     *)
(* filled: the day is acquired a second time, with the top 100 of that run  *)

NextRerun ==
    \E d \in Dates, quoted \in Compositions : AcquisitionDay(d, quoted)

SpecRerun == InitComposition /\ [][NextRerun]_vars

----------------------------------------------------------------------------
(* GET /index-composition on a new database, before and after a run of   *)
(* run_acquisition(days=1) has acquired one of the dates                  *)

NextSnapshot ==
    \/ \E d \in Dates, quoted \in SUBSET Listed : AcquisitionDay(d, quoted)
    \/ \E c \in DOMAIN call, d \in Dates : GetCompositionForDate(c, d)
    \/ \E key \in DOMAIN redis : Expire(key)

SpecSnapshot == InitCache /\ [][NextSnapshot]_vars

----------------------------------------------------------------------------
(* Properties of build_index and get_performance *)

\* C1: every turn of build_index's loop moves the day cursor on by one day,
\* the turn that skips a non-trading day included (so the loop ends and the
\* call returns)
C1_CursorAdvances ==
    [][\A c \in DOMAIN call :
          (/\ call[c].op = "build_index" /\ call[c].pc = "body"
           /\ call'[c].op = "build_index" /\ call'[c].pc = "while")
          => call'[c].current_date = call[c].current_date + 1]_vars

\* What get_performance assembles for [s, e] when every cache read misses
UncachedPerformance(rows, s, e) ==
    LET daily_returns == [d \in DOMAIN rows \cap s..e |-> rows[d]]
    IN  Dict([daily_returns |-> daily_returns,
              cumulative_return |-> CumulativeReturn(daily_returns)])

\* C2: a get_performance call returns, with the cache in use, the value it
\* returns with the cache disabled (every read a miss): the days and the
\* compounded return of the index_performance rows of the range
C2_CacheTransparent ==
    \A c \in DOMAIN ret :
        (ret[c].op = "get_performance" /\ ret[c].raised = None /\ ret[c].clean)
        => ret[c].value = UncachedPerformance(index_performance,
                                              ret[c].start_date, ret[c].end_date)

\* C3: a get_performance call that assembles no day at all is answered as
\* not found, never as a found result with an empty mapping
C3_NoDataIsNotFound ==
    \A c \in DOMAIN ret :
        (/\ ret[c].op = "get_performance" /\ ret[c].raised = None /\ ~ret[c].fast
         /\ DOMAIN ret[c].value.items.daily_returns = {})
        => ret[c].response.status = 404

\* C4: with daily_data unchanged since before the first of two consecutive
\* build_index calls on the same range, the second call returns the mapping
\* and the cumulative return of the first and leaves index_performance as the
\* first left it
C4_BuildIndexIdempotent ==
    [][\A c \in DOMAIN call :
          (/\ call[c].op = "build_index" /\ call[c].pc = "finish"
           /\ call'[c] = Idle
           /\ ret[c].op = "build_index" /\ ret[c].raised = None /\ ret[c].clean
           /\ ret[c].start_date = call[c].start_date
           /\ ret[c].end_date = call[c].end_date
           /\ ret'[c].clean)
          => /\ ret'[c].value = ret[c].value
             /\ index_performance' = index_performance]_vars

\* The product of (1 + r_d) over the days of a mapping, latest day last, minus 1
RECURSIVE ProductOfDays(_)
ProductOfDays(m) ==
    IF DOMAIN m = {} THEN ROne
    ELSE LET last == CHOOSE d \in DOMAIN m : \A x \in DOMAIN m : x <= d
         IN  RMul(ProductOfDays([d \in DOMAIN m \ {last} |-> m[d]]), RAdd(ROne, m[last]))

\* C5: the cumulative return build_index returns, and the one get_performance
\* assembles, is the product of (1 + r_d) over exactly the days of the
\* returned mapping, minus 1; it is 0 for an empty mapping
C5_CumulativeIdentity ==
    \A c \in DOMAIN ret :
        /\ (ret[c].op = "build_index" /\ ret[c].raised = None)
           => LET v == ret[c].value.items IN
              /\ v.cumulative_index_returns
                    = RSub(ProductOfDays(v.daily_index_returns), ROne)
              /\ DOMAIN v.daily_index_returns = {} => v.cumulative_index_returns = RZero
        /\ (ret[c].op = "get_performance" /\ ret[c].raised = None /\ ~ret[c].fast)
           => LET v == ret[c].value.items IN
              /\ v.cumulative_return = RSub(ProductOfDays(v.daily_returns), ROne)
              /\ DOMAIN v.daily_returns = {} => v.cumulative_return = RZero

\* build_index has returned a mapping of two days with a non-zero compounded
\* return
C5_Witness ==
    \E c \in DOMAIN ret :
        /\ ret[c].op = "build_index" /\ ret[c].raised = None
        /\ Cardinality(DOMAIN ret[c].value.items.daily_index_returns) = 2
        /\ \A d \in DOMAIN ret[c].value.items.daily_index_returns :
              ret[c].value.items.daily_index_returns[d] # RZero
        /\ ret[c].value.items.cumulative_index_returns # RZero

\* C6: build_index returns, caches and persists no daily return for a date
\* that is a Saturday or a Sunday
C6_WeekendSkipped ==
    \A d \in Dates :
        Weekday(d) \in {5, 6}
        => /\ d \notin DOMAIN index_performance
           /\ build_single_date_key("daily_return", d) \notin DOMAIN redis
           /\ \A c \in DOMAIN ret :
                 (ret[c].op = "build_index" /\ ret[c].raised = None)
                 => d \notin DOMAIN ret[c].value.items.daily_index_returns

\* C7: the return build_index computes for date D on a cache miss is the
\* unweighted mean of price(D) / price(D - 1) - 1 over the symbols with a row
\* on both dates (no day is recorded when there is none); for X 100 -> 110
\* and Y 50 -> 55 it is 1/10
C7_EqualWeightedMean ==
    [][\A c \in DOMAIN call :
          (/\ call[c].op = "build_index" /\ call[c].pc = "compute"
           /\ call'[c].op = "build_index" /\ call'[c].pc = "while")
          => LET D == call[c].current_date
                 both == {s \in Symbols : /\ <<s, D - 1>> \in DOMAIN daily_data
                                          /\ <<s, D>> \in DOMAIN daily_data}
                 r == [s \in both |->
                          Rat(daily_data[<<s, D>>].price - daily_data[<<s, D - 1>>].price,
                              daily_data[<<s, D - 1>>].price)]
                 mean == RDiv(RSum(r, both), RInt(Cardinality(both)))
             IN  IF both = {}
                 THEN /\ call'[c].index_dates = call[c].index_dates
                      /\ call'[c].index_returns = call[c].index_returns
                 ELSE /\ call'[c].index_dates = Append(call[c].index_dates, D)
                      /\ call'[c].index_returns = Append(call[c].index_returns, mean)
                      /\ (/\ both = {1, 2}
                          /\ daily_data[<<1, D - 1>>].price = 100
                          /\ daily_data[<<1, D>>].price = 110
                          /\ daily_data[<<2, D - 1>>].price = 50
                          /\ daily_data[<<2, D>>].price = 55)
                         => mean = <<1, 10>>]_vars

\* build_index over the single day on which X went 100 -> 110 and Y 50 -> 55
\* has returned 1/10 for the day and 1/10 as the cumulative return
C7_Witness ==
    \E c \in DOMAIN ret, D \in Dates :
        /\ ret[c].op = "build_index" /\ ret[c].raised = None
        /\ ret[c].start_date = D /\ ret[c].end_date = D
        /\ {<<1, D - 1>>, <<1, D>>, <<2, D - 1>>, <<2, D>>} \subseteq DOMAIN daily_data
        /\ daily_data[<<1, D - 1>>].price = 100 /\ daily_data[<<1, D>>].price = 110
        /\ daily_data[<<2, D - 1>>].price = 50 /\ daily_data[<<2, D>>].price = 55
        /\ DOMAIN ret[c].value.items.daily_index_returns = {D}
        /\ ret[c].value.items.daily_index_returns[D] = <<1, 10>>
        /\ ret[c].value.items.cumulative_index_returns = <<1, 10>>

----------------------------------------------------------------------------
(* Properties of get_composition_changes *)

Ascending(q) == \A i \in 1..Len(q) : \A j \in 1..Len(q) : i < j => q[i] < q[j]

\* A diff is that of date D over index_composition: added = symbols(D) less
\* symbols(D - 1), removed = symbols(D - 1) less symbols(D), both ascending
\* without duplicates, and disjoint
IsDiffOf(changes, D) ==
    LET cur == {s \in Listed : <<D, s>> \in DOMAIN index_composition}
        prev == {s \in Listed : <<D - 1, s>> \in DOMAIN index_composition}
        added == changes.items.added.elems
        removed == changes.items.removed.elems
    IN  /\ Range(added) = cur \ prev
        /\ Range(removed) = prev \ cur
        /\ Ascending(added) /\ Ascending(removed)
        /\ Range(added) \cap Range(removed) = {}
        /\ (prev = {1, 2, 3} /\ cur = {2, 3, 4}) => (added = <<4>> /\ removed = <<1>>)

\* C8: the diff get_composition_changes computes for a date D on a cache miss
\* (the one it caches, and enters if it is not empty) has added = symbols(D)
\* minus symbols(D-1) and removed = symbols(D-1) minus symbols(D), each sorted
\* ascending without duplicates, the two disjoint; {A,B,C} then {B,C,D} gives
\* added = [D], removed = [A]
C8_CompositionDiff ==
    /\ \A D \in Dates :
          LET key == build_single_date_key("composition_changes", D) IN
          key \in DOMAIN redis => IsDiffOf(json_loads(redis[key]), D)
    /\ \A c \in DOMAIN call :
          call[c].op = "get_composition_changes"
          => \A i \in 1..Len(call[c].all_changes) :
                IsDiffOf(call[c].all_changes[i].changes, call[c].all_changes[i].date)

\* The diff of a day whose composition went {A,B,C} -> {B,C,D} is cached as
\* added = [D], removed = [A]
C8_Witness ==
    \E D \in Dates :
        /\ {s \in Listed : <<D - 1, s>> \in DOMAIN index_composition} = {1, 2, 3}
        /\ {s \in Listed : <<D, s>> \in DOMAIN index_composition} = {2, 3, 4}
        /\ build_single_date_key("composition_changes", D) \in DOMAIN redis
        /\ json_loads(redis[build_single_date_key("composition_changes", D)])
              = Dict([added |-> List(<<4>>), removed |-> List(<<1>>)])

\* C9: the mapping get_composition_changes returns has as keys exactly the
\* dates of the range whose diff is not empty, in ascending order, each with
\* its diff; a day with an empty diff is never among them
C9_OnlyChangedDays ==
    \A c \in DOMAIN ret :
        ret[c].op = "get_composition_changes"
        => LET m == ret[c].value
               changed == {d \in ret[c].start_date..ret[c].end_date :
                             {s \in Listed : <<d, s>> \in DOMAIN index_composition}
                               # {s \in Listed : <<d - 1, s>> \in DOMAIN index_composition}}
           IN  /\ {m[i].date : i \in 1..Len(m)} = changed
               /\ Ascending([i \in 1..Len(m) |-> m[i].date])
               /\ \A i \in 1..Len(m) :
                     \/ m[i].changes.items.added.elems # <<>>
                     \/ m[i].changes.items.removed.elems # <<>>

\* A call over several days has returned a mapping that holds a changed day
\* and leaves out a day whose empty diff sits in the cache
C9_Witness ==
    \E c \in DOMAIN ret, d \in Dates :
        /\ ret[c].op = "get_composition_changes"
        /\ d \in ret[c].start_date..ret[c].end_date
        /\ build_single_date_key("composition_changes", d) \in DOMAIN redis
        /\ json_loads(redis[build_single_date_key("composition_changes", d)])
              = Dict([added |-> List(<<>>), removed |-> List(<<>>)])
        /\ Len(ret[c].value) >= 1
        /\ \A i \in 1..Len(ret[c].value) : ret[c].value[i].date # d

----------------------------------------------------------------------------
(* Properties of RedisCache *)

\* C10: no RedisCache call raises: when the PING or the command fails, get
\* gives None and set and delete give False, be the instance connected
\* before or not; after a failed PING the command is not sent
C10_NeverRaises ==
    backend.op \in {"get", "set", "delete"}
    => /\ backend.raised = None
       /\ (backend.ping = "RedisError" \/ backend.reply = "RedisError")
          => IF backend.op = "get" THEN backend.result = PyNone
             ELSE backend.done = FALSE
       /\ backend.ping = "RedisError" => ~backend.issued /\ backend.reply = Unsent

\* A get of a key the store holds, by an instance already connected, met a
\* failing command and gave None
C10_Witness ==
    /\ backend.op = "get"
    /\ backend.was_connected
    /\ backend.reply = "RedisError"
    /\ backend.key \in DOMAIN redis
    /\ backend.result = PyNone

----------------------------------------------------------------------------
(* Properties under failing database statements *)

\* C13: when the query of one day of build_index fails, the call goes on: the
\* day gets no entry in the lists, nothing is cached for it, nothing is
\* returned yet, and the loop continues with the next day
C13_FailedDaySkipped ==
    [][\A c \in DOMAIN call :
          (/\ call[c].op = "build_index" /\ call[c].pc = "compute"
           /\ call'[c] # call[c]
           /\ faults' # faults)
          => /\ call'[c] = [call[c] EXCEPT !.previous_date = call[c].current_date,
                                            !.current_date = call[c].current_date + 1,
                                            !.pc = "while"]
             /\ redis' = redis
             /\ ret' = ret]_vars

\* build_index has returned, without raising, a mapping that lacks a day
\* with data (its query failed, nothing is cached for it) and holds the day
\* after it
C13_Witness ==
    \E c \in DOMAIN ret, d \in Dates :
        /\ ret[c].op = "build_index" /\ ret[c].raised = None
        /\ faults < MaxFaults
        /\ ret[c].start_date <= d /\ d + 1 <= ret[c].end_date
        /\ <<1, d - 1>> \in DOMAIN daily_data /\ <<1, d>> \in DOMAIN daily_data
        /\ d \notin DOMAIN ret[c].value.items.daily_index_returns
        /\ build_single_date_key("daily_return", d) \notin DOMAIN redis
        /\ d + 1 \in DOMAIN ret[c].value.items.daily_index_returns

\* C14: get_composition_changes never ends by raising, a failing composition
\* query included
C14_CompositionQueryIsolated ==
    \A c \in DOMAIN ret :
        ret[c].op = "get_composition_changes" => ret[c].raised = None

\* C19: what build_index has returned is in index_performance: for every date
\* of the returned mapping a row with that daily_return
C19_ReturnedIsPersisted ==
    \A c \in DOMAIN ret :
        (ret[c].op = "build_index" /\ ret[c].raised = None)
        => \A d \in DOMAIN ret[c].value.items.daily_index_returns :
              /\ d \in DOMAIN index_performance
              /\ index_performance[d] = ret[c].value.items.daily_index_returns[d]

----------------------------------------------------------------------------
(* Properties of the fast path of get_performance *)

\* C20: a get_performance call that finds the whole-range entry returns at
\* once exactly the cached value: no cache entry is written, no row of the
\* store is touched and no per-day work is left in flight
C20_FastPath ==
    [][\A c \in DOMAIN call :
          (/\ call[c] = Idle /\ call'[c] = Idle
           /\ ret'[c] # ret[c] /\ ret'[c].op = "get_performance")
          => LET key == <<"index_perf:range", ret'[c].start_date, ret'[c].end_date>>
             IN  /\ ret'[c].fast /\ ret'[c].raised = None
                 /\ key \in DOMAIN redis
                 /\ ret'[c].value = json_loads(redis[key])
                 /\ redis' = redis
                 /\ index_performance' = index_performance
                 /\ daily_data' = daily_data]_vars

\* A get_performance call has returned, on the fast path, a cached result
\* that holds a day
C20_Witness ==
    \E c \in DOMAIN ret :
        /\ ret[c].op = "get_performance" /\ ret[c].raised = None /\ ret[c].fast
        /\ call[c] = Idle
        /\ DOMAIN ret[c].value.items.daily_returns # {}
        /\ <<"index_perf:range", ret[c].start_date, ret[c].end_date>> \in DOMAIN redis

----------------------------------------------------------------------------
(* Properties of build_index over foreign cache entries *)

\* C18: build_index never ends by raising, whatever the type of the value
\* cached under a day's key (a cached value that is no float is a miss)
C18_UnparsableIsMiss ==
    \A c \in DOMAIN ret :
        ret[c].op = "build_index" => ret[c].raised = None

----------------------------------------------------------------------------
(* Properties of build_index over the trading calendar *)

\* C16: the return build_index gives a trading day D is taken against the
\* most recent day before D that has observations (the last trading day):
\* whenever some symbol has a row on that day and on D, D is in the returned
\* mapping with the mean of price(D) / price(that day) - 1 over those symbols
C16_PriorTradingDayCohort ==
    \A c \in DOMAIN ret :
        (ret[c].op = "build_index" /\ ret[c].raised = None)
        => \A D \in ret[c].start_date..ret[c].end_date :
              LET priors == {p \in Dates :
                               p < D /\ \E s \in Symbols : <<s, p>> \in DOMAIN daily_data}
              IN  (Weekday(D) < 5 /\ priors # {})
                  => LET P == CHOOSE p \in priors : \A q \in priors : q <= p
                         both == {s \in Symbols : /\ <<s, P>> \in DOMAIN daily_data
                                                  /\ <<s, D>> \in DOMAIN daily_data}
                         r == [s \in both |->
                                  Rat(daily_data[<<s, D>>].price - daily_data[<<s, P>>].price,
                                      daily_data[<<s, P>>].price)]
                     IN  both # {}
                         => /\ D \in DOMAIN ret[c].value.items.daily_index_returns
                            /\ ret[c].value.items.daily_index_returns[D]
                                  = RDiv(RSum(r, both), RInt(Cardinality(both)))

----------------------------------------------------------------------------
(* Properties of run_acquisition *)

\* A day of the run that committed, right after a day that committed
SurvivorshipStep ==
    /\ run.op = "run_acquisition" /\ run'.op = "run_acquisition"
    /\ run'.current_date = run.current_date + 1
    /\ run.last.status = "committed" /\ run'.last.status = "committed"

C12_DayIsolated ==
    [][/\ (/\ run.op = "run_acquisition" /\ run'.op = "run_acquisition"
            /\ run'.current_date # run.current_date
            /\ run'.last.status = "rolled back")
           => /\ daily_data' = daily_data
              /\ index_composition' = index_composition
              /\ run'.prev_symbols = run.prev_symbols
              /\ run'.current_date = run.current_date + 1
       /\ (run.op = "run_acquisition" /\ run'.op # "run_acquisition")
           => run.current_date = run.end_date]_vars

C12_Witness ==
    /\ run.op = "run_acquisition" /\ run.last.status = "committed"
    /\ run.last.date - 1 \in run.rolled_back
    /\ \A s \in Symbols : <<s, run.last.date - 1>> \notin DOMAIN daily_data
    /\ \E s \in Symbols : <<s, run.last.date>> \in DOMAIN daily_data
    /\ \E s \in Symbols : <<s, run.last.date - 2>> \in DOMAIN daily_data

\* C17: on every date for which a composition is stored, the cohort
\* build_index selects from daily_data (the rows of highest market_cap, at
\* most 100) is the set of symbols of that composition, supplementary rows of
\* dropped symbols or not (no statement of the run having failed)
C17_CohortIsComposition ==
    \A P \in Dates :
        (faults = MaxFaults /\ CompositionSymbols(index_composition, P) # {})
        => FixedTop100(daily_data, P) = {CompositionSymbols(index_composition, P)}

----------------------------------------------------------------------------
(* Properties of concurrent build_index calls *)

\* C15: two build_index calls on the same range that ran at the same time,
\* daily_data not changing from the start of either, return the same mapping
\* and the same cumulative return, and once both have returned the
\* index_performance rows of the range are those of the returned mapping
C15_BenignRace ==
    \A c \in DOMAIN ret : \A o \in DOMAIN ret \ {c} :
        (/\ ret[c].op = "build_index" /\ ret[o].op = "build_index"
         /\ ret[c].raised = None /\ ret[o].raised = None
         /\ ret[c].clean /\ ret[o].clean
         /\ ret[c].start_date = ret[o].start_date
         /\ ret[c].end_date = ret[o].end_date)
        => /\ ret[c].value = ret[o].value
           /\ (\A k \in DOMAIN call : call[k] = Idle)
              => \A d \in DOMAIN ret[c].value.items.daily_index_returns :
                    /\ d \in DOMAIN index_performance
                    /\ index_performance[d]
                          = ret[c].value.items.daily_index_returns[d]

----------------------------------------------------------------------------
(* Properties of the RedisCache connection flag *)

\* C27: _connected never goes from True back to False; a call made while it
\* is False sends a PING first; a call made once it is True sends no PING
\* and leaves it True, also when the command of that call fails
C27_StickyConnected ==
    [][/\ connected => connected'
       /\ IF backend'.op = "none" THEN TRUE
          ELSE /\ ~backend'.was_connected => backend'.ping # Unsent
               /\ backend'.was_connected
                  => (backend'.ping = Unsent /\ backend'.issued /\ connected')]_vars

C27_Witness ==
    /\ backend.op = "set"
    /\ backend.was_connected /\ backend.ping = Unsent
    /\ backend.reply = "RedisError" /\ ~backend.done
    /\ connected

----------------------------------------------------------------------------
(* Properties of the cache keys *)

\* C28: a key leaves the cache only by the expiry of its TTL, a step that
\* touches nothing else; and a daily_return, index_perf:daily,
\* index_perf:range or composition_changes key enters the cache only in the
\* step of the operation that has computed its value, and holds that value
C28_KeyLifecycle ==
    [][/\ \A key \in DOMAIN redis \ DOMAIN redis' :
             /\ redis' = [k \in DOMAIN redis \ {key} |-> redis[k]]
             /\ call' = call /\ ret' = ret /\ connected' = connected
             /\ daily_data' = daily_data /\ index_composition' = index_composition
             /\ index_performance' = index_performance
             /\ acquisitions' = acquisitions
       /\ \A key \in DOMAIN redis' \ DOMAIN redis :
             \E c \in DOMAIN call :
                LET L == call[c] IN
                IF key[1] = "daily_return"
                THEN /\ L.op = "build_index" /\ L.pc = "compute"
                     /\ key[2] = L.current_date
                     /\ \E row \in DailyReturnQuery(daily_data, L.previous_date,
                                                     L.current_date) :
                           /\ row.found /\ ~row.null
                           /\ redis'[key] = PyStr(row.equal_weighted_index_return)
                ELSE IF key[1] = "index_perf:daily"
                THEN /\ L.op = "get_performance" /\ L.pc = "query"
                     /\ key[2] \in Range(L.missing_dates)
                     /\ key[2] \in DOMAIN index_performance
                     /\ redis'[key] = PyStr(index_performance[key[2]])
                ELSE IF key[1] = "index_perf:range"
                THEN /\ L.op = "get_performance" /\ L.pc = "finish"
                     /\ key = <<"index_perf:range", L.start_date, L.end_date>>
                     /\ redis'[key] = json_dumps(ret'[c].value)
                ELSE IF key[1] = "composition_changes"
                THEN /\ L.op = "get_composition_changes"
                     /\ key[2] = L.current_date
                     /\ redis'[key]
                           = json_dumps(CompositionDiff(index_composition, key[2]))
                ELSE TRUE]_vars

C28_Witness ==
    /\ <<"daily_return", MaxDate>> \in DOMAIN redis
    /\ <<"index_perf:daily", MaxDate>> \in DOMAIN redis
    /\ <<"index_perf:range", MaxDate, MaxDate>> \in DOMAIN redis
    /\ <<"composition_changes", MaxDate>> \in DOMAIN redis
    /\ <<"cumulative_return", MaxDate, MaxDate>> \notin DOMAIN redis

----------------------------------------------------------------------------
(* Properties of the miss path of get_performance *)

\* C21: after a whole-range miss, the one query of get_performance asks for
\* exactly the days of the range that gave no usable per-day entry (and is
\* not made when there is none); the days it returns join the mapping with
\* their stored returns and are the only cache keys written, each with its
\* own return; the call then writes nothing but the whole-range entry, with
\* the value it returns, and ends
C21_MissPath ==
    [][\A c \in DOMAIN call :
          LET L == call[c]
              unusable == {d \in L.start_date..L.end_date : d \notin DOMAIN L.daily_returns}
              fetched == unusable \cap DOMAIN index_performance
              range_key == <<"index_perf:range", L.start_date, L.end_date>>
              written == {key \in DOMAIN redis' :
                            IF key \in DOMAIN redis THEN redis'[key] # redis[key] ELSE TRUE}
          IN  IF L.op # "get_performance" \/ call'[c] = L THEN TRUE
              ELSE IF L.pc = "query"
              THEN /\ call'[c].pc = "finish"
                   /\ Range(L.missing_dates) = unusable
                   /\ call'[c].daily_returns =
                         [d \in DOMAIN L.daily_returns \cup fetched |->
                             IF d \in fetched THEN index_performance[d]
                             ELSE L.daily_returns[d]]
                   /\ \A key \in written :
                         /\ key[1] = "index_perf:daily" /\ key[2] \in fetched
                         /\ redis'[key] = PyStr(index_performance[key[2]])
                   /\ DOMAIN redis \subseteq DOMAIN redis'
                   /\ unusable = {} => redis' = redis
              ELSE IF L.pc = "finish"
              THEN /\ call'[c] = Idle
                   /\ ret'[c].value.items.daily_returns = L.daily_returns
                   /\ \A key \in written :
                         /\ key = range_key
                         /\ redis'[key] = json_dumps(ret'[c].value)
                   /\ DOMAIN redis \subseteq DOMAIN redis'
              ELSE TRUE]_vars

\* A call over two days has returned the day it found cached and the day it
\* fetched, and both per-day entries and the whole-range entry are in the cache
C21_Witness ==
    \E c \in DOMAIN ret :
        /\ ret[c].op = "get_performance" /\ ret[c].raised = None /\ ~ret[c].fast
        /\ ret[c].start_date < ret[c].end_date
        /\ DOMAIN ret[c].value.items.daily_returns = ret[c].start_date..ret[c].end_date
        /\ \A d \in ret[c].start_date..ret[c].end_date :
              /\ <<"index_perf:daily", d>> \in DOMAIN redis
              /\ redis[<<"index_perf:daily", d>>] = PyStr(ret[c].value.items.daily_returns[d])
        /\ <<"index_perf:range", ret[c].start_date, ret[c].end_date>> \in DOMAIN redis
        /\ redis[<<"index_perf:range", ret[c].start_date, ret[c].end_date>>]
              = json_dumps(ret[c].value)

----------------------------------------------------------------------------
(* Properties of fetch_stocks_for_date *)

\* C22: a call of fetch_stocks_for_date makes at most 3 attempts, has slept
\* 5 seconds for each failed attempt but the last and at no other time,
\* returns a list without raising (the empty list when the third attempt
\* has failed), and every call returns
C22_BoundedRetry ==
    /\ [](\A c \in {1} :
            /\ call[c].op = "fetch_stocks_for_date"
               => (call[c].attempt < max_retries
                   /\ call[c].slept = retry_delay * call[c].attempt)
            /\ ret[c].op = "fetch_stocks_for_date"
               => (/\ ret[c].raised = None
                   /\ ret[c].value.type = "list"
                   /\ ret[c].attempts \in 1..max_retries
                   /\ ret[c].slept = retry_delay * (ret[c].attempts - 1)))
    /\ \A c \in {1} : (call[c].op = "fetch_stocks_for_date") ~> (call[c] = Idle)

\* A call has returned the empty list at its third attempt, after two sleeps
C22_Witness ==
    /\ ret[1].op = "fetch_stocks_for_date"
    /\ ret[1].attempts = max_retries
    /\ ret[1].slept = 2 * retry_delay
    /\ ret[1].value = List(<<>>)
    /\ call[1] = Idle

\* C23: the list fetch_stocks_for_date returns has at most 100 candidates of
\* the listing, each with price > 0 and volume > 0 and none twice, in
\* descending order of price x volume with equal ones in ascending order of
\* symbol, and every valid candidate left out comes after the last one kept
\* in that order, whatever the order of the listing
C23_Top100Selection ==
    \A c \in DOMAIN ret :
        (ret[c].op = "fetch_stocks_for_date" /\ ret[c].value.type = "list")
        => LET top == ret[c].value.elems
               d == ret[c].target_date
               cap(s) == DailyRow(s, d).market_cap
               Before(s, t) == cap(s) > cap(t) \/ (cap(s) = cap(t) /\ s < t)
               valid == {s \in Range(ret[c].listing) : Close(s, d) > 0 /\ Volume(s, d) > 0}
           IN  /\ Len(top) <= ListingLimit
               /\ Range(top) \subseteq valid
               /\ \A i \in DOMAIN top : \A j \in DOMAIN top :
                     i < j => Before(top[i], top[j])
               /\ \A s \in valid \ Range(top) :
                     /\ Len(top) = ListingLimit
                     /\ Before(top[Len(top)], s)

----------------------------------------------------------------------------
(* Properties of the stored composition *)

\* C24: index_composition holds at most 100 entries for every date, and no
\* two symbols of a date hold the same rank, also after a date has been
\* acquired a second time with a different top 100
C24_CompositionBound ==
    \A d \in Dates :
        LET members == CompositionSymbols(index_composition, d)
        IN  /\ Cardinality(members) <= ListingLimit
            /\ \A s \in members : \A t \in members :
                  index_composition[<<d, s>>].rank = index_composition[<<d, t>>].rank
                  => s = t

\* C25: after every committed day of a run, each index_composition entry
\* (D, symbol) has a daily_data row (symbol, D), also when one of the
\* inserts of a symbol has failed
C25_CompositionHasObservation ==
    \A k \in DOMAIN index_composition : <<k[2], k[1]>> \in DOMAIN daily_data

\* C26: every daily_data row written by run_acquisition, for a symbol of the
\* top 100 or for a dropped symbol, has price > 0 and volume > 0
C26_ValidObservations ==
    \A k \in DOMAIN daily_data : daily_data[k].price > 0 /\ daily_data[k].volume > 0

----------------------------------------------------------------------------
(* Properties of get_composition_for_date *)

\* C29: get_composition_for_date writes top100_stocks:<date> only with the
\* non-empty list the store has just given; a list it serves from the cache
\* is never empty, and a call that finds no entry, or an empty one, returns
\* the members the store holds for the date; the list it returns is in
\* descending order of market cap
C29_SnapshotCache ==
    [][\A c \in DOMAIN ret :
          (/\ ret'[c].op = "get_composition_for_date" /\ ret'[c].raised = None
           \* neither a step of the acquisition nor the expiry of a key
           /\ acquisitions' = acquisitions /\ DOMAIN redis \subseteq DOMAIN redis')
          => LET d == ret'[c].date
                 key == build_single_date_key("top100_stocks", d)
                 list == ret'[c].value.elems
                 cached == IF key \in DOMAIN redis THEN Decoded(redis[key]) ELSE PyNone
             IN  /\ \A i \in DOMAIN list : \A j \in DOMAIN list :
                       i < j => list[i].market_cap >= list[j].market_cap
                 /\ ret'[c].from_cache => (list # <<>> /\ ret'[c].value = cached)
                 /\ (ret' # ret /\ ~ret'[c].from_cache)
                       => {list[i].symbol : i \in DOMAIN list}
                             = CompositionSymbols(index_composition, d)
                 /\ (ret' # ret /\ Falsy(cached)) => ~ret'[c].from_cache
                 /\ redis' # redis
                       => /\ list # <<>> /\ ~ret'[c].from_cache
                          /\ redis' = [k \in DOMAIN redis \cup {key} |->
                                         IF k = key THEN json_dumps(ret'[c].value)
                                         ELSE redis[k]]]_vars

\* After the day was acquired with no candidate, the cache holds an empty
\* snapshot of the date and the call has returned the empty list from the store
C29_Witness ==
    \E c \in DOMAIN ret :
        /\ ret[c].op = "get_composition_for_date" /\ ret[c].raised = None
        /\ ~ret[c].from_cache /\ ret[c].value = List(<<>>)
        /\ <<"top100_stocks", ret[c].date>> \in DOMAIN redis
        /\ redis[<<"top100_stocks", ret[c].date>>] = json_dumps(List(<<>>))

----------------------------------------------------------------------------
(* Properties of the acquisition loop *)

\* C30: run_acquisition(days) starts at today - days; each turn of its loop
\* processes the date that follows the last one processed, ends it with
\* exactly one commit or rollback, and moves to the next date; the run ends
\* only after the date today - 1, and it does end, whichever days failed
C30_Sequential ==
    /\ [][/\ (run.op = "none" /\ run'.op = "run_acquisition")
              => /\ run'.current_date \in (run'.end_date - (MaxDate + 1))..(run'.end_date - 1)
                 /\ run'.end_date = MaxDate + 1
                 /\ run'.last = NoDay /\ run'.rolled_back = {}
          /\ (run.op = "run_acquisition" /\ run'.op = "run_acquisition")
              => /\ run.current_date < run.end_date
                 /\ run'.last.date = run.current_date
                 /\ run.last # NoDay => run'.last.date = run.last.date + 1
                 /\ run'.last.status \in {"committed", "rolled back"}
                 /\ run'.current_date = run.current_date + 1
                 /\ run'.end_date = run.end_date
          /\ (run.op = "run_acquisition" /\ run'.op = "none")
              => /\ run.current_date = run.end_date
                 /\ run.last # NoDay => run.last.date = run.end_date - 1]_vars
    /\ (run.op = "run_acquisition") ~> (run.op = "none")

\* A run over three dates has processed the last of them after rolling the
\* second back
C30_Witness ==
    /\ run.op = "run_acquisition"
    /\ run.current_date = run.end_date
    /\ run.rolled_back = {MaxDate - 1}
    /\ run.last.date = MaxDate /\ run.last.status = "committed"
    /\ \E s \in Symbols : <<s, MaxDate - 2>> \in DOMAIN daily_data
    /\ \E s \in Symbols : <<s, MaxDate>> \in DOMAIN daily_data

----------------------------------------------------------------------------
(* Properties of build_index across windows *)

\* C31: with the store unchanged and the cache empty at the start, the
\* return build_index holds for a date D is the same in every window that
\* contains D: the returns of the call in flight, those of the last call
\* that returned and the entry daily_return:D of the cache agree on D
C31_WindowIndependence ==
    \A c \in DOMAIN call :
        IF call[c].op # "build_index" THEN TRUE
        ELSE \A i \in 1..Len(call[c].index_dates) :
                LET D == call[c].index_dates[i]
                    r == call[c].index_returns[i]
                    key == build_single_date_key("daily_return", D)
                IN  /\ key \in DOMAIN redis
                        => redis[key] = write_to_cache_text(Float(r), FALSE)
                    /\ \A o \in DOMAIN ret :
                          IF ret[o].op # "build_index" THEN TRUE
                          ELSE IF ret[o].raised # None THEN TRUE
                          ELSE IF D \notin DOMAIN ret[o].value.items.daily_index_returns
                          THEN TRUE
                          ELSE ret[o].value.items.daily_index_returns[D] = r

\* build_index(D, D) has returned a return for D, and a call over a window
\* that starts before D holds a return for D while the cache has no entry
\* for D
C31_Witness ==
    \E c \in DOMAIN call, D \in Dates :
        /\ ret[c].op = "build_index" /\ ret[c].raised = None
        /\ ret[c].start_date = D /\ ret[c].end_date = D
        /\ D \in DOMAIN ret[c].value.items.daily_index_returns
        /\ call[c].op = "build_index" /\ call[c].start_date < D
        /\ D \in Range(call[c].index_dates)
        /\ build_single_date_key("daily_return", D) \notin DOMAIN redis

----------------------------------------------------------------------------
(* Properties of the top100_stocks snapshot *)

\* C32: whenever the cache holds a non-empty snapshot top100_stocks:D, the
\* index_composition rows of D are those of the symbols of the snapshot,
\* also after the transaction of day D was rolled back
C32_SnapshotNotAhead ==
    \A d \in Dates :
        LET key == build_single_date_key("top100_stocks", d) IN
        IF key \notin DOMAIN redis THEN TRUE
        ELSE LET snapshot == json_loads(redis[key]) IN
             IF Falsy(snapshot) THEN TRUE
             ELSE {snapshot.elems[i].symbol : i \in DOMAIN snapshot.elems}
                     = CompositionSymbols(index_composition, d)

----------------------------------------------------------------------------
(* Properties of the baseline of the supplementary fetches *)

\* C33: in run_acquisition the previous-symbol set is empty before the first
\* day; each day computes its dropped symbols from the set as the days
\* before it left it; a day that commits makes its selected set the new
\* baseline, also an empty one, and a day that is rolled back leaves the
\* baseline as it was; a day that starts with an empty baseline fetches no
\* dropped symbol
C33_Baseline ==
    /\ [](IF run.op # "run_acquisition" THEN TRUE
          ELSE IF run.last.status = "none" THEN run.prev_symbols = {}
          ELSE IF run.last.status = "committed"
          THEN run.prev_symbols = run.last.selected
          ELSE run.prev_symbols = run.last.previous)
    /\ [][IF run.op # "run_acquisition" \/ run'.op # "run_acquisition" THEN TRUE
          ELSE /\ run'.last.previous = run.prev_symbols
               /\ run'.last.fetched \subseteq run.prev_symbols \ run'.last.selected
               /\ run.prev_symbols = {} => run'.last.fetched = {}
               /\ run'.last.status = "committed"
                     => run'.prev_symbols = run'.last.selected
               /\ run'.last.status = "rolled back"
                     => run'.prev_symbols = run.prev_symbols]_vars

\* A run over three dates: the first day committed a selection, the second
\* committed an empty one, and the third started from an empty baseline,
\* fetched nothing and committed its own selection
C33_Witness ==
    /\ run.op = "run_acquisition" /\ run.current_date = run.end_date
    /\ run.rolled_back = {}
    /\ \E s \in Symbols : <<MaxDate - 2, s>> \in DOMAIN index_composition
    /\ \A s \in Symbols : <<MaxDate - 1, s>> \notin DOMAIN index_composition
    /\ run.last.date = MaxDate /\ run.last.status = "committed"
    /\ run.last.previous = {} /\ run.last.fetched = {}
    /\ run.last.selected # {} /\ run.prev_symbols = run.last.selected
    /\ faults = MaxFaults

====
